---------------------------- MODULE Spec2Model ----------------------------
(***************************************************************************)
(* Model of the Solana transfer ledger: the transfer reconciliation of     *)
(* src/src/transfer_parser.rs as it is driven, once for printing and once  *)
(* for storing, by SolanaGrpcClient::handle_update (src/src/grpc_client.rs)*)
(* under Spec, and store_transaction_to_database over the signature store  *)
(* and the address store (src/src/database) under StoreSpec, where every   *)
(* database read and write may fail.  ArithSpec follows the integer        *)
(* arithmetic of the parser over the whole of u64, KeySpec the key prefix  *)
(* handling of src/src/database/storage.rs, and MonitorSpec the reconnect  *)
(* loop of SolanaGrpcClient::start_monitoring.                             *)
(*                                                                         *)
(* Conventions.                                                            *)
(*  - Account indices are 0-based as in the source; the element of index i *)
(*    of a Rust Vec is element i + 1 of the sequence that models it.       *)
(*  - An address is the base58 text of a key; bs58_encode is modelled as   *)
(*    an injective tagging of the key, and the placeholder text            *)
(*    "unknown_<i>" as the pair <<"unknown_", i>>.                         *)
(*  - Balances are u64 in the source.  The inputs drawn under Spec and     *)
(*    StoreSpec are far below 2^63, where `as i64`, negation and the u64   *)
(*    products are exact; ArithSpec draws them from the whole of u64 and   *)
(*    computes in four 16-bit limbs.                                       *)
(*  - timestamp is passed through untouched by every function modelled     *)
(*    here and is left out of the records.                                 *)
(***************************************************************************)
EXTENDS Integers, Sequences, FiniteSets, TLC

VARIABLES
    pc,               \* position inside handle_update
    call,             \* which caller runs the parser: "print" or "store"
    update,           \* the SubscribeUpdateTransaction being handled
    addresses,        \* build_complete_account_list: the Vec it returned
    balance_changes,  \* Vec<AccountBalanceChange> of the running parse
    used_senders,     \* extract_transfers: used_senders
    used_receivers,   \* extract_transfers: used_receivers
    transfers,        \* extract_transfers: transfers
    pass_of,          \* for each element of transfers, the pass that pushed it
    sol_result,       \* value returned by the last parse_sol_transfers
    token_changes,    \* analyze_token_balance_changes: balance_changes
    token_result,     \* value returned by the last parse_token_transfers
    printed,          \* what parse_and_print_transfers obtained
    signature_data,   \* what store_transaction_to_database collected
    signature_db,     \* signatures present in the signature store
    signature_store,  \* the signature store: signature -> stored record
    address_store,    \* the address store: address -> AddressTransactionList.records
    pending,          \* batch_process_transaction: the add_record calls ahead
    inserted,         \* per address, every record add_record saved, newest first
    max_records,      \* AddressStorage.max_records
    deliveries,       \* transaction updates handed to the store so far
    at_entry          \* the stores as store_transaction_to_database found them

parser_vars == <<pc, call, update, addresses, balance_changes, used_senders,
                 used_receivers, transfers, pass_of, sol_result, token_changes,
                 token_result, printed, signature_data, signature_db>>

store_vars == <<signature_store, address_store, pending, inserted, max_records,
                deliveries, at_entry>>

\* The arithmetic of one balance entry, followed through the parser.
VARIABLES
    overflow_checks,  \* build profile: overflow checks on (debug) or off
    arith_pc,         \* position of the entry in the parser's arithmetic
    arith_asset,      \* "native" or "token"
    arith_entry,      \* the snapshots holding the account: "both", "post", "pre"
    arith_pre,        \* u64 balance before execution
    arith_post,       \* u64 balance after execution
    arith_change,     \* the i64 delta the parser computed
    arith_amount,     \* the u64 send / receive amount derived from it
    scaled,           \* the last threshold computed from the amount
    wrapped           \* some operation so far wrapped around

arith_vars == <<overflow_checks, arith_pc, arith_asset, arith_entry, arith_pre,
                arith_post, arith_change, arith_amount, scaled, wrapped>>

\* One use of StorageManager's key functions.
VARIABLES
    key_prefix_length,  \* StorageManager.key_prefix_length
    key_pc,             \* which of the key functions have been applied
    arg_prefix,         \* the prefix handed to make_key
    arg_key,            \* the key handed to make_key / validate_key_prefix
    made_key,           \* the Result of make_key
    validated           \* the Result of validate_key_prefix

key_vars == <<key_prefix_length, key_pc, arg_prefix, arg_key, made_key,
              validated>>

\* The monitoring loop of the gRPC client.
VARIABLES
    mon_pc,             \* position inside start_monitoring
    db_manager,         \* whether the client was built with a database
    attempts,           \* calls of connect_and_subscribe so far
    ended,              \* how the last call ended: "none", "ok", "err"
    slept,              \* seconds waited between that end and the next call
    message_count,      \* connect_and_subscribe: message_count
    transaction_count,  \* connect_and_subscribe: transaction_count
    last_update,        \* the update handle_update was last called with
    returned_ok,        \* calls of handle_update that returned Ok(())
    error_logged        \* the last update's store failed and was logged

monitor_vars == <<mon_pc, db_manager, attempts, ended, slept, message_count,
                  transaction_count, last_update, returned_ok, error_logged>>

side_vars == <<arith_vars, key_vars, monitor_vars>>

vars == <<parser_vars, store_vars, side_vars>>

-----------------------------------------------------------------------------
(* Generic helpers                                                         *)

Min2(a, b) == IF a <= b THEN a ELSE b

Max2(a, b) == IF a >= b THEN a ELSE b

\* floor(x * m / d) for x >= 0, computed without forming the product x * m
\* (the checker's integers are 32 bits wide; the source's are 64).
MulDiv(x, m, d) == (x \div d) * m + ((x % d) * m) \div d

\* u64::saturating_sub
saturating_sub(a, b) == IF a >= b THEN a - b ELSE 0

-----------------------------------------------------------------------------
(* Program constants                                                       *)

MAX_GAS_FEE == 10000000

DUST_FLOOR == 100000

FALLBACK_FLOOR == 1000000

-----------------------------------------------------------------------------
(* Addresses and the account universe                                      *)

bs58_encode(key) == <<"bs58", key>>

unknown_(index) == <<"unknown_", index>>

\* A lookup that would count positions from 1.
address_at_one_based(account_addresses, index) ==
    IF 1 <= index /\ index <= Len(account_addresses)
    THEN account_addresses[index]
    ELSE unknown_(index)

\* account_addresses.get(index).cloned().unwrap_or_else(|| "unknown_<index>")
address_at(account_addresses, index) ==
    IF index + 1 <= Len(account_addresses)
    THEN account_addresses[index + 1]
    ELSE unknown_(index)

\* A construction that would keep only the first occurrence of an address.
RECURSIVE deduplicated(_)
deduplicated(list) ==
    IF list = <<>> THEN <<>>
    ELSE LET front == deduplicated(SubSeq(list, 1, Len(list) - 1))
             last  == list[Len(list)]
         IN IF \E i \in DOMAIN front : front[i] = last
            THEN front
            ELSE Append(front, last)

build_complete_account_list_deduplicated(u) ==
    deduplicated(
        [i \in 1..Len(u.account_keys) |-> bs58_encode(u.account_keys[i])]
        \o [i \in 1..Len(u.loaded_writable_addresses) |->
                bs58_encode(u.loaded_writable_addresses[i])]
        \o [i \in 1..Len(u.loaded_readonly_addresses) |->
                bs58_encode(u.loaded_readonly_addresses[i])])

build_complete_account_list(u) ==
    [i \in 1..Len(u.account_keys) |-> bs58_encode(u.account_keys[i])]
    \o [i \in 1..Len(u.loaded_writable_addresses) |->
            bs58_encode(u.loaded_writable_addresses[i])]
    \o [i \in 1..Len(u.loaded_readonly_addresses) |->
            bs58_encode(u.loaded_readonly_addresses[i])]

-----------------------------------------------------------------------------
(* Native reconciler: analyze_balance_changes                              *)

RECURSIVE collect_changes_shifted(_, _, _, _)
collect_changes_shifted(i, account_addresses, pre, post) ==
    IF i > Min2(Len(pre), Len(post)) THEN <<>>
    ELSE LET change == post[i] - pre[IF i > 1 THEN i - 1 ELSE 1]
             rest   == collect_changes_shifted(i + 1, account_addresses, pre, post)
         IN IF change # 0
            THEN <<[index        |-> i - 1,
                    address      |-> address_at(account_addresses, i - 1),
                    change       |-> change,
                    pre_balance  |-> pre[i],
                    post_balance |-> post[i]]>> \o rest
            ELSE rest

RECURSIVE collect_changes(_, _, _, _)
collect_changes(i, account_addresses, pre, post) ==
    IF i > Min2(Len(pre), Len(post)) THEN <<>>
    ELSE LET change == post[i] - pre[i]
             rest   == collect_changes(i + 1, account_addresses, pre, post)
         IN IF change # 0
            THEN <<[index        |-> i - 1,
                    address      |-> address_at(account_addresses, i - 1),
                    change       |-> change,
                    pre_balance  |-> pre[i],
                    post_balance |-> post[i]]>> \o rest
            ELSE rest

analyze_balance_changes_short_universe(account_addresses, u) ==
    IF Len(u.pre_balances) # Len(u.post_balances) THEN <<>>
    ELSE collect_changes(1, account_addresses, u.pre_balances, u.post_balances)

analyze_balance_changes(account_addresses, u) ==
    IF Len(u.pre_balances) # Len(u.post_balances) THEN <<>>
    ELSE IF Len(account_addresses) < Len(u.pre_balances) THEN <<>>
    ELSE collect_changes(1, account_addresses, u.pre_balances, u.post_balances)

-----------------------------------------------------------------------------
(* Native reconciler: extract_transfers                                    *)

IsSender(c) == c.change < 0

IsReceiver(c) == c.change > 0

senders_of(changes) == SelectSeq(changes, IsSender)

receivers_of_unfiltered(changes) == changes

receivers_of(changes) == SelectSeq(changes, IsReceiver)

is_matching_transfer_sym(send_amount, receive_amount) ==
    IF send_amount = receive_amount THEN TRUE
    ELSE IF send_amount > receive_amount
            /\ send_amount - receive_amount <= MAX_GAS_FEE THEN TRUE
    ELSE IF receive_amount > send_amount
            /\ receive_amount - send_amount <= MAX_GAS_FEE THEN TRUE
    ELSE IF send_amount > receive_amount
         THEN LET difference       == send_amount - receive_amount
                  max_allowed_diff == Max2(send_amount \div 100, MAX_GAS_FEE)
              IN difference <= max_allowed_diff
    ELSE FALSE

is_matching_transfer(send_amount, receive_amount) ==
    IF send_amount = receive_amount THEN TRUE
    ELSE IF send_amount > receive_amount
            /\ send_amount - receive_amount <= MAX_GAS_FEE THEN TRUE
    ELSE IF send_amount > receive_amount
         THEN LET difference       == send_amount - receive_amount
                  max_allowed_diff == Max2(send_amount \div 100, MAX_GAS_FEE)
              IN difference <= max_allowed_diff
    ELSE FALSE

SolTransfer_sender_side(sig, sender, receiver, amount) ==
    [signature  |-> sig,
     from       |-> sender.address,
     to         |-> receiver.address,
     amount     |-> -sender.change,
     from_index |-> sender.index,
     to_index   |-> receiver.index]

SolTransfer(sig, sender, receiver, amount) ==
    [signature  |-> sig,
     from       |-> sender.address,
     to         |-> receiver.address,
     amount     |-> amount,
     from_index |-> sender.index,
     to_index   |-> receiver.index]

\* A pass works on st = [transfers, pass_of, used_senders, used_receivers].
Emit(st, t, pass) ==
    [st EXCEPT !.transfers = Append(@, t), !.pass_of = Append(@, pass)]

\* Stable sort, descending by .amount (Vec::sort_by(|a, b| b.2.cmp(&a.2))).
RECURSIVE insert_asc(_, _)
insert_asc(sorted, x) ==
    IF sorted = <<>> THEN <<x>>
    ELSE IF Head(sorted).amount <= x.amount
         THEN <<Head(sorted)>> \o insert_asc(Tail(sorted), x)
         ELSE <<x>> \o sorted

RECURSIVE insert_desc(_, _)
insert_desc(sorted, x) ==
    IF sorted = <<>> THEN <<x>>
    ELSE IF Head(sorted).amount >= x.amount
         THEN <<Head(sorted)>> \o insert_desc(Tail(sorted), x)
         ELSE <<x>> \o sorted

\* The candidates left in the order they were collected.
unsorted(s) == s

RECURSIVE sort_desc(_)
sort_desc(s) ==
    IF s = <<>> THEN <<>>
    ELSE insert_desc(sort_desc(SubSeq(s, 1, Len(s) - 1)), s[Len(s)])

(* Pass A: tolerant 1:1 match *)

\* Best fit: an exact match wherever it is, else the first match.
RECURSIVE first_matching_exact_first(_, _, _, _)
first_matching_exact_first(j, send_amount, receivers, used_r) ==
    LET exact == {h \in j..Len(receivers) :
                    ~used_r[h] /\ receivers[h].change = send_amount}
        close == {h \in j..Len(receivers) :
                    ~used_r[h]
                    /\ is_matching_transfer(send_amount, receivers[h].change)}
    IN IF exact # {} THEN CHOOSE h \in exact : \A g \in exact : h <= g
       ELSE IF close # {} THEN CHOOSE h \in close : \A g \in close : h <= g
       ELSE 0

RECURSIVE first_matching(_, _, _, _)
first_matching(j, send_amount, receivers, used_r) ==
    IF j > Len(receivers) THEN 0
    ELSE IF ~used_r[j] /\ is_matching_transfer(send_amount, receivers[j].change)
         THEN j
         ELSE first_matching(j + 1, send_amount, receivers, used_r)

RECURSIVE pass_a(_, _, _, _, _)
pass_a(i, st, sig, senders, receivers) ==
    IF i > Len(senders) THEN st
    ELSE IF st.used_senders[i] THEN pass_a(i + 1, st, sig, senders, receivers)
    ELSE LET send_amount == -senders[i].change
             j == first_matching(1, send_amount, receivers, st.used_receivers)
         IN IF j = 0 THEN pass_a(i + 1, st, sig, senders, receivers)
            ELSE LET t  == SolTransfer(sig, senders[i], receivers[j],
                                       receivers[j].change)
                     s1 == Emit(st, t, "A")
                     s2 == [s1 EXCEPT !.used_senders[i] = TRUE,
                                      !.used_receivers[j] = TRUE]
                 IN pass_a(i + 1, s2, sig, senders, receivers)

(* Pass B: one sender, many receivers *)

\* receive_amount <= send_amount * 15 / 10, as
\* receive_amount - send_amount <= send_amount * 5 / 10 (no wide product).
within_150_percent(receive_amount, send_amount) ==
    receive_amount - send_amount <= MulDiv(send_amount, 5, 10)

RECURSIVE candidate_receivers(_, _, _, _)
candidate_receivers(j, send_amount, receivers, used_r) ==
    IF j > Len(receivers) THEN <<>>
    ELSE LET receive_amount == receivers[j].change
             rest == candidate_receivers(j + 1, send_amount, receivers, used_r)
         IN IF ~used_r[j]
               /\ within_150_percent(receive_amount, send_amount)
               /\ receive_amount >= DUST_FLOOR
            THEN <<[pos |-> j, amount |-> receive_amount]>> \o rest
            ELSE rest

\* `if remaining < 100_000 { break; }` of the two greedy loops.
too_little_left_never(remaining) == FALSE

too_little_left(remaining) == remaining < DUST_FLOOR

\* The greedy loop of one sender; returns [st, remaining_amount].
RECURSIVE consume_receivers(_, _, _, _, _, _, _)
consume_receivers(k, cands, remaining_amount, st, sig, sender, receivers) ==
    IF k > Len(cands) THEN [st |-> st, remaining_amount |-> remaining_amount]
    ELSE IF too_little_left(remaining_amount)
         THEN [st |-> st, remaining_amount |-> remaining_amount]
    ELSE LET j == cands[k].pos
             receive_amount == cands[k].amount
         IN IF receive_amount <= MulDiv(remaining_amount, 11, 10)
            THEN LET t  == SolTransfer(sig, sender, receivers[j], receive_amount)
                     s1 == Emit(st, t, "B")
                     s2 == [s1 EXCEPT !.used_receivers[j] = TRUE]
                 IN consume_receivers(k + 1, cands,
                        saturating_sub(remaining_amount, receive_amount),
                        s2, sig, sender, receivers)
            ELSE consume_receivers(k + 1, cands, remaining_amount,
                                   st, sig, sender, receivers)

sender_done_b_at_half(remaining_amount, send_amount) ==
    remaining_amount <= send_amount \div 2

sender_done_b(remaining_amount, send_amount) ==
    remaining_amount < send_amount \div 2

RECURSIVE pass_b(_, _, _, _, _)
pass_b(i, st, sig, senders, receivers) ==
    IF i > Len(senders) THEN st
    ELSE IF st.used_senders[i] THEN pass_b(i + 1, st, sig, senders, receivers)
    ELSE LET send_amount == -senders[i].change
             cands == sort_desc(candidate_receivers(1, send_amount, receivers,
                                                    st.used_receivers))
             r  == consume_receivers(1, cands, send_amount, st, sig,
                                     senders[i], receivers)
             s2 == IF sender_done_b(r.remaining_amount, send_amount)
                   THEN [r.st EXCEPT !.used_senders[i] = TRUE]
                   ELSE r.st
         IN pass_b(i + 1, s2, sig, senders, receivers)

(* Pass C: many senders, one receiver *)

RECURSIVE candidate_senders(_, _, _)
candidate_senders(i, senders, used_s) ==
    IF i > Len(senders) THEN <<>>
    ELSE LET send_amount == -senders[i].change
             rest == candidate_senders(i + 1, senders, used_s)
         IN IF ~used_s[i] /\ send_amount >= DUST_FLOOR
            THEN <<[pos |-> i, amount |-> send_amount]>> \o rest
            ELSE rest

emitted_amount_uncapped(used_amount, remaining_needed) == used_amount

emitted_amount(used_amount, remaining_needed) ==
    Min2(used_amount, remaining_needed)

sender_done_c_never(used_amount, send_amount) ==
    used_amount > send_amount

sender_done_c_whole(used_amount, send_amount) ==
    used_amount >= send_amount

sender_done_c(used_amount, send_amount) ==
    used_amount >= MulDiv(send_amount, 8, 10)

receiver_done_c(remaining_needed, receive_amount) ==
    remaining_needed < receive_amount \div 2

\* The greedy loop of one receiver; returns [st, remaining_needed].
RECURSIVE consume_senders(_, _, _, _, _, _, _)
consume_senders(k, cands, remaining_needed, st, sig, senders, receiver) ==
    IF k > Len(cands) THEN [st |-> st, remaining_needed |-> remaining_needed]
    ELSE IF too_little_left(remaining_needed)
         THEN [st |-> st, remaining_needed |-> remaining_needed]
    ELSE LET i == cands[k].pos
             send_amount == cands[k].amount
             used_amount == Min2(send_amount, MulDiv(remaining_needed, 11, 10))
             amount == emitted_amount(used_amount, remaining_needed)
             t  == SolTransfer(sig, senders[i], receiver, amount)
             s1 == Emit(st, t, "C")
             s2 == IF sender_done_c(used_amount, send_amount)
                   THEN [s1 EXCEPT !.used_senders[i] = TRUE]
                   ELSE s1
         IN consume_senders(k + 1, cands,
                            saturating_sub(remaining_needed, amount),
                            s2, sig, senders, receiver)

RECURSIVE pass_c(_, _, _, _, _)
pass_c(j, st, sig, senders, receivers) ==
    IF j > Len(receivers) THEN st
    ELSE IF st.used_receivers[j] THEN pass_c(j + 1, st, sig, senders, receivers)
    ELSE LET receive_amount == receivers[j].change
             cands == sort_desc(candidate_senders(1, senders, st.used_senders))
             r  == consume_senders(1, cands, receive_amount, st, sig,
                                   senders, receivers[j])
             s2 == IF receiver_done_c(r.remaining_needed, receive_amount)
                   THEN [r.st EXCEPT !.used_receivers[j] = TRUE]
                   ELSE r.st
         IN pass_c(j + 1, s2, sig, senders, receivers)

(* Pass D: best-effort fallback *)

RECURSIVE first_sender_used_or_not(_, _, _)
first_sender_used_or_not(i, senders, used_s) ==
    IF i > Len(senders) THEN 0
    ELSE IF -senders[i].change > DUST_FLOOR THEN i
    ELSE first_sender_used_or_not(i + 1, senders, used_s)

RECURSIVE first_free_sender(_, _, _)
first_free_sender(i, senders, used_s) ==
    IF i > Len(senders) THEN 0
    ELSE IF ~used_s[i] /\ -senders[i].change > DUST_FLOOR THEN i
    ELSE first_free_sender(i + 1, senders, used_s)

RECURSIVE pass_d(_, _, _, _, _)
pass_d(j, st, sig, senders, receivers) ==
    IF j > Len(receivers) THEN st
    ELSE IF ~st.used_receivers[j] /\ receivers[j].change > FALLBACK_FLOOR
         THEN LET i == first_free_sender(1, senders, st.used_senders)
              IN IF i = 0 THEN pass_d(j + 1, st, sig, senders, receivers)
                 ELSE pass_d(j + 1,
                             Emit(st, SolTransfer(sig, senders[i], receivers[j],
                                                  receivers[j].change), "D"),
                             sig, senders, receivers)
    ELSE pass_d(j + 1, st, sig, senders, receivers)

-----------------------------------------------------------------------------
(* Token reconciler: analyze_token_balance_changes                         *)

MINT_AIRDROP == <<"text", "MINT/AIRDROP">>

BURN_DESTROY == <<"text", "BURN/DESTROY">>

\* Option<UiTokenAmount>::None
NoAmount == [amount |-> <<>>, decimals |-> 0, some |-> FALSE]

UiTokenAmount(amount, decimals) ==
    [amount |-> amount, decimals |-> decimals, some |-> TRUE]

Digits == <<"0", "1", "2", "3", "4", "5", "6", "7", "8", "9">>

IsDigit(c) == \E d \in DOMAIN Digits : Digits[d] = c

DigitValue(c) == (CHOOSE d \in DOMAIN Digits : Digits[d] = c) - 1

RECURSIVE parse_digits(_, _)
parse_digits(chars, acc) ==
    IF chars = <<>> THEN [ok |-> TRUE, value |-> acc]
    ELSE IF IsDigit(Head(chars))
         THEN parse_digits(Tail(chars), acc * 10 + DigitValue(Head(chars)))
         ELSE [ok |-> FALSE, value |-> 0]

\* A parse that would read a text that is no unsigned integer as 0.
parse_u64_or_zero(chars) ==
    LET body == IF chars # <<>> /\ Head(chars) = "+" THEN Tail(chars) ELSE chars
        r    == IF body = <<>> THEN [ok |-> FALSE, value |-> 0]
                ELSE parse_digits(body, 0)
    IN IF r.ok THEN r ELSE [ok |-> TRUE, value |-> 0]

\* str::parse::<u64>(): an optional leading '+', then one or more decimal
\* digits and nothing else.  The text is modelled as its sequence of
\* characters.
parse_u64(chars) ==
    LET body == IF chars # <<>> /\ Head(chars) = "+" THEN Tail(chars) ELSE chars
    IN IF body = <<>> THEN [ok |-> FALSE, value |-> 0]
       ELSE parse_digits(body, 0)

key_of(tb) == <<tb.account_index, tb.mint>>

\* HashMap<(u32, String), &TokenBalance> collected from the list: for a key
\* that occurs more than once the last entry wins.
token_map(list) ==
    [k \in {key_of(list[i]) : i \in DOMAIN list} |->
        list[CHOOSE i \in DOMAIN list :
                /\ key_of(list[i]) = k
                /\ \A h \in DOMAIN list : key_of(list[h]) = k => h <= i]]

\* All iteration orders of a hash map's key set.
Orders(keys) ==
    {o \in [1..Cardinality(keys) -> keys] : \A k \in keys : \E i \in DOMAIN o : o[i] = k}

TokenChange(account_index, mint, change, decimals) ==
    [account_index |-> account_index, mint |-> mint,
     change |-> change, decimals |-> decimals]

\* The body of `for (key, post_balance) in &post_map` if a changed balance
\* took `pre_amount.decimals`.
post_entry_changes_pre_decimals(k, pre_map, post_map) ==
    LET post_amount == post_map[k].ui_token_amount
    IN IF k \in DOMAIN pre_map
       THEN LET pre_amount == pre_map[k].ui_token_amount
            IN IF pre_map[k].mint = post_map[k].mint
                  /\ pre_amount.some /\ post_amount.some
               THEN LET pre_raw  == parse_u64(pre_amount.amount)
                        post_raw == parse_u64(post_amount.amount)
                    IN IF pre_raw.ok /\ post_raw.ok
                          /\ pre_raw.value # post_raw.value
                          /\ post_raw.value - pre_raw.value # 0
                       THEN <<TokenChange(k[1], k[2],
                                          post_raw.value - pre_raw.value,
                                          pre_amount.decimals)>>
                       ELSE <<>>
               ELSE <<>>
       ELSE IF post_amount.some
            THEN LET post_raw == parse_u64(post_amount.amount)
                 IN IF post_raw.ok /\ post_raw.value > 0
                    THEN <<TokenChange(k[1], k[2], post_raw.value,
                                       post_amount.decimals)>>
                    ELSE <<>>
            ELSE <<>>

\* The body of `for (key, post_balance) in &post_map`: the changes pushed.
post_entry_changes(k, pre_map, post_map) ==
    LET post_amount == post_map[k].ui_token_amount
    IN IF k \in DOMAIN pre_map
       THEN LET pre_amount == pre_map[k].ui_token_amount
            IN IF pre_map[k].mint = post_map[k].mint
                  /\ pre_amount.some /\ post_amount.some
               THEN LET pre_raw  == parse_u64(pre_amount.amount)
                        post_raw == parse_u64(post_amount.amount)
                    IN IF pre_raw.ok /\ post_raw.ok
                          /\ pre_raw.value # post_raw.value
                          /\ post_raw.value - pre_raw.value # 0
                       THEN <<TokenChange(k[1], k[2],
                                          post_raw.value - pre_raw.value,
                                          post_amount.decimals)>>
                       ELSE <<>>
               ELSE <<>>
       ELSE IF post_amount.some
            THEN LET post_raw == parse_u64(post_amount.amount)
                 IN IF post_raw.ok /\ post_raw.value > 0
                    THEN <<TokenChange(k[1], k[2], post_raw.value,
                                       post_amount.decimals)>>
                    ELSE <<>>
            ELSE <<>>

\* The body of `for (key, pre_balance) in &pre_map`: the changes pushed.
pre_entry_changes(k, pre_map, post_map) ==
    LET pre_amount == pre_map[k].ui_token_amount
    IN IF k \notin DOMAIN post_map /\ pre_amount.some
       THEN LET pre_raw == parse_u64(pre_amount.amount)
            IN IF pre_raw.ok /\ pre_raw.value > 0
               THEN <<TokenChange(k[1], k[2], -pre_raw.value,
                                  pre_amount.decimals)>>
               ELSE <<>>
       ELSE <<>>

RECURSIVE post_changes(_, _, _, _)
post_changes(n, post_order, pre_map, post_map) ==
    IF n > Len(post_order) THEN <<>>
    ELSE post_entry_changes(post_order[n], pre_map, post_map)
         \o post_changes(n + 1, post_order, pre_map, post_map)

RECURSIVE pre_changes(_, _, _, _)
pre_changes(n, pre_order, pre_map, post_map) ==
    IF n > Len(pre_order) THEN <<>>
    ELSE pre_entry_changes(pre_order[n], pre_map, post_map)
         \o pre_changes(n + 1, pre_order, pre_map, post_map)

\* balance_changes as built when post_map iterates in post_order and pre_map
\* in pre_order.
token_balance_changes(pre_list, post_list, post_order, pre_order) ==
    LET pre_map  == token_map(pre_list)
        post_map == token_map(post_list)
    IN post_changes(1, post_order, pre_map, post_map)
       \o pre_changes(1, pre_order, pre_map, post_map)

IsIncrease(c) == c.change > 0

IsDecrease(c) == c.change < 0

\* mint_groups: the mints with a change, and the changes of one mint in the
\* order they were pushed.
group_mints(changes) == {changes[i].mint : i \in DOMAIN changes}

RECURSIVE group_of(_, _)
group_of(changes, mint) ==
    IF changes = <<>> THEN <<>>
    ELSE IF Head(changes).mint = mint
         THEN <<Head(changes)>> \o group_of(Tail(changes), mint)
         ELSE group_of(Tail(changes), mint)

TokenTransfer(sig, from, to, amount, mint, decimals) ==
    [signature |-> sig, from |-> from, to |-> to, amount |-> amount,
     mint |-> mint, decimals |-> decimals]

\* to_amount >= from_amount / 10 && to_amount <= from_amount * 10
within_tenfold(to_amount, from_amount) ==
    to_amount >= from_amount \div 10 /\ to_amount <= from_amount * 10

one_to_one(sig, mint, inc, dec, account_addresses) ==
    LET to_amount   == inc.change
        from_amount == -dec.change
    IN IF within_tenfold(to_amount, from_amount)
       THEN <<TokenTransfer(sig,
                            address_at(account_addresses, dec.account_index),
                            address_at(account_addresses, inc.account_index),
                            to_amount, mint, inc.decimals)>>
       ELSE <<>>

\* The f64 ratio max(a, b) / min(a, b), kept as the exact fraction num/den.
\* For the magnitudes drawn here two different fractions never round to the
\* same f64, so the f64 comparisons agree with the exact ones.
ratio_of(from_amount, to_amount) ==
    IF from_amount > to_amount
    THEN [num |-> from_amount, den |-> to_amount]
    ELSE [num |-> to_amount, den |-> from_amount]

INFINITY == [num |-> 1, den |-> 0]

ratio_le_10(r) == r.num <= 10 * r.den

\* `ratio <= best_ratio`: on equal ratios the later decrease would win.
ratio_le(r, best) == best.den = 0 \/ r.num * best.den <= best.num * r.den

ratio_lt(r, best) == best.den = 0 \/ r.num * best.den < best.num * r.den

\* The inner loop over decreases: best is [pos, ratio], pos = 0 for None.
RECURSIVE best_match(_, _, _, _, _)
best_match(i, to_amount, decreases, used_decreases, best) ==
    IF i > Len(decreases) THEN best
    ELSE IF used_decreases[i]
         THEN best_match(i + 1, to_amount, decreases, used_decreases, best)
    ELSE LET ratio == ratio_of(-decreases[i].change, to_amount)
         IN IF ratio_le_10(ratio) /\ ratio_lt(ratio, best.ratio)
            THEN best_match(i + 1, to_amount, decreases, used_decreases,
                            [pos |-> i, ratio |-> ratio])
            ELSE best_match(i + 1, to_amount, decreases, used_decreases, best)

RECURSIVE multi_match(_, _, _, _, _, _, _)
multi_match(n, sig, mint, increases, decreases, used_decreases, account_addresses) ==
    IF n > Len(increases) THEN <<>>
    ELSE LET to_amount == increases[n].change
             best == best_match(1, to_amount, decreases, used_decreases,
                                [pos |-> 0, ratio |-> INFINITY])
         IN IF best.pos = 0
            THEN multi_match(n + 1, sig, mint, increases, decreases,
                             used_decreases, account_addresses)
            ELSE <<TokenTransfer(sig,
                       address_at(account_addresses,
                                  decreases[best.pos].account_index),
                       address_at(account_addresses, increases[n].account_index),
                       to_amount, mint, increases[n].decimals)>>
                 \o multi_match(n + 1, sig, mint, increases, decreases,
                                [used_decreases EXCEPT ![best.pos] = TRUE],
                                account_addresses)

RECURSIVE mint_only(_, _, _, _)
mint_only(sig, mint, increases, account_addresses) ==
    IF increases = <<>> THEN <<>>
    ELSE LET to_amount == Head(increases).change
             rest == mint_only(sig, mint, Tail(increases), account_addresses)
         IN IF to_amount > 0 /\ to_amount >= 1
            THEN <<TokenTransfer(sig, MINT_AIRDROP,
                       address_at(account_addresses, Head(increases).account_index),
                       to_amount, mint, Head(increases).decimals)>> \o rest
            ELSE rest

RECURSIVE burn_only(_, _, _, _)
burn_only(sig, mint, decreases, account_addresses) ==
    IF decreases = <<>> THEN <<>>
    ELSE LET from_amount == -Head(decreases).change
             rest == burn_only(sig, mint, Tail(decreases), account_addresses)
         IN IF from_amount > 0 /\ from_amount >= 1
            THEN <<TokenTransfer(sig,
                       address_at(account_addresses, Head(decreases).account_index),
                       BURN_DESTROY,
                       from_amount, mint, Head(decreases).decimals)>> \o rest
            ELSE rest

\* A loop body that would report every change of a group without a 1:1 match
\* against a sentinel.
group_transfers_all_sentinels(sig, mint, changes, account_addresses) ==
    LET increases == SelectSeq(changes, IsIncrease)
        decreases == SelectSeq(changes, IsDecrease)
    IN IF Len(increases) = 1 /\ Len(decreases) = 1
          /\ within_tenfold(increases[1].change, -decreases[1].change)
       THEN one_to_one(sig, mint, increases[1], decreases[1], account_addresses)
       ELSE mint_only(sig, mint, increases, account_addresses)
            \o burn_only(sig, mint, decreases, account_addresses)

\* The body of `for (mint, changes) in mint_groups`: the transfers pushed.
group_transfers(sig, mint, changes, account_addresses) ==
    LET increases == SelectSeq(changes, IsIncrease)
        decreases == SelectSeq(changes, IsDecrease)
    IN IF Len(increases) = 1 /\ Len(decreases) = 1
       THEN one_to_one(sig, mint, increases[1], decreases[1], account_addresses)
       ELSE IF increases # <<>> /\ decreases # <<>>
       THEN multi_match(1, sig, mint, increases, decreases,
                        [i \in 1..Len(decreases) |-> FALSE], account_addresses)
       ELSE IF increases # <<>> /\ decreases = <<>>
       THEN mint_only(sig, mint, increases, account_addresses)
       ELSE IF increases = <<>> /\ decreases # <<>>
       THEN burn_only(sig, mint, decreases, account_addresses)
       ELSE <<>>

\* The transfers pushed when mint_groups iterates in group_order.
RECURSIVE match_groups(_, _, _, _, _)
match_groups(n, group_order, sig, changes, account_addresses) ==
    IF n > Len(group_order) THEN <<>>
    ELSE group_transfers(sig, group_order[n],
                         group_of(changes, group_order[n]), account_addresses)
         \o match_groups(n + 1, group_order, sig, changes, account_addresses)

\* Every list analyze_token_balance_changes can return for the snapshots,
\* over the iteration orders of its three hash maps.
PossibleTokenResults(pre_list, post_list, sig, account_addresses) ==
    UNION { UNION { { match_groups(1, group_order, sig,
                          token_balance_changes(pre_list, post_list,
                                                post_order, pre_order),
                          account_addresses) :
                      group_order \in Orders(group_mints(
                          token_balance_changes(pre_list, post_list,
                                                post_order, pre_order))) } :
                    pre_order \in Orders(DOMAIN token_map(pre_list)) } :
            post_order \in Orders(DOMAIN token_map(post_list)) }

-----------------------------------------------------------------------------
(* Inputs: the transaction updates the stream may deliver                  *)

\* Most accounts with a native balance in one transaction.
MaxAccounts == 3

\* Most token accounts in one transaction of TokenUpdates.
MaxTokenAccounts == 2

\* Most keys in each of the three key lists of KeyUpdates.
MaxKeys == 2

\* <<pre_balance, post_balance>> of one account: senders, an untouched
\* account, receivers.
BalancePairs ==
    { <<1500000000, 0>>, <<1000000000, 0>>, <<490000000, 0>>, <<100000, 0>>,
      <<5000, 0>>,
      <<1000000000, 1000000000>>,
      <<0, 50000>>, <<0, 490000000>>, <<0, 999990000>>, <<0, 1000000000>>,
      <<0, 1488000000>> }

\* The n keys of a transaction: up to two static keys, then one key loaded
\* writable, then keys loaded readonly.  Keys are numbered byte strings.
StaticKeys(n) == [i \in 1..Min2(n, 2) |-> i - 1]

WritableKeys(n) == [i \in 1..(IF n > 2 THEN 1 ELSE 0) |-> 100]

ReadonlyKeys(n) == [i \in 1..(IF n > 3 THEN n - 3 ELSE 0) |-> 200 + i - 1]

Update(has_meta, has_raw, has_message, ns, pre, post, pre_tok, post_tok) ==
    [has_transaction           |-> TRUE,
     has_meta                  |-> has_meta,
     has_raw                   |-> has_raw,
     has_message               |-> has_message,
     signature                 |-> "sig1",
     account_keys              |-> StaticKeys(ns),
     loaded_writable_addresses |-> WritableKeys(ns),
     loaded_readonly_addresses |-> ReadonlyKeys(ns),
     pre_balances              |-> pre,
     post_balances             |-> post,
     pre_token_balances        |-> pre_tok,
     post_token_balances       |-> post_tok]

\* SubscribeUpdateTransaction { transaction: None, .. }
NoTransaction ==
    [Update(FALSE, FALSE, FALSE, 0, <<>>, <<>>, <<>>, <<>>)
        EXCEPT !.has_transaction = FALSE, !.signature = "none"]

TokenBalance(account_index, mint, ui_token_amount) ==
    [account_index |-> account_index, mint |-> mint,
     ui_token_amount |-> ui_token_amount]

\* What one token account shows before and after: absent from a snapshot,
\* or an entry with a raw amount text (6 decimals unless said otherwise), or
\* an entry without ui_token_amount.
Absent == [present |-> FALSE, ui |-> NoAmount]

Present(chars) == [present |-> TRUE, ui |-> UiTokenAmount(chars, 6)]

PresentDecimals(chars, decimals) ==
    [present |-> TRUE, ui |-> UiTokenAmount(chars, decimals)]

PresentNone == [present |-> TRUE, ui |-> NoAmount]

\* Token accounts whose balance moves: +5 (opened), +51 (decimals 9 before,
\* 6 after), -59, -50 (closed), -5, and +5 of a second mint.
TokenCases ==
    { [mint |-> "M1", pre |-> Absent,               post |-> Present(<<"5">>)],
      [mint |-> "M1", pre |-> PresentDecimals(<<"4">>, 9),
                      post |-> Present(<<"5", "5">>)],
      [mint |-> "M1", pre |-> Present(<<"5", "9">>), post |-> Present(<<"0">>)],
      [mint |-> "M1", pre |-> Present(<<"5", "0">>), post |-> Absent],
      [mint |-> "M1", pre |-> Present(<<"5">>),     post |-> Present(<<"0">>)],
      [mint |-> "M2", pre |-> Absent,               post |-> Present(<<"5">>)] }

\* Token accounts at the edges: unchanged, opened or closed with balance 0,
\* an amount that is no unsigned integer before or after or in the only
\* entry, a leading '+', an empty text, an entry without amount, a closed
\* account of the second mint.
EdgeCases ==
    { [mint |-> "M1", pre |-> Present(<<"7">>),     post |-> Present(<<"7">>)],
      [mint |-> "M1", pre |-> Absent,               post |-> Present(<<"0">>)],
      [mint |-> "M1", pre |-> Present(<<"0">>),     post |-> Absent],
      [mint |-> "M1", pre |-> Present(<<"x">>),     post |-> Present(<<"5">>)],
      [mint |-> "M1", pre |-> Present(<<"5">>),     post |-> Present(<<"5", "x">>)],
      [mint |-> "M1", pre |-> Absent,               post |-> Present(<<"-", "5">>)],
      [mint |-> "M1", pre |-> Present(<<>>),        post |-> Absent],
      [mint |-> "M1", pre |-> Absent,               post |-> Present(<<"+", "5">>)],
      [mint |-> "M1", pre |-> PresentNone,          post |-> Present(<<"5">>)],
      [mint |-> "M2", pre |-> Present(<<"5", "0">>), post |-> Absent] }

\* The snapshot lists of token accounts 1..Len(slots): side is "pre" or "post".
RECURSIVE snapshot(_, _, _)
snapshot(slots, i, side) ==
    IF i > Len(slots) THEN <<>>
    ELSE LET e == IF side = "pre" THEN slots[i].pre ELSE slots[i].post
             rest == snapshot(slots, i + 1, side)
         IN IF e.present
            THEN <<TokenBalance(i, slots[i].mint, e.ui)>> \o rest
            ELSE rest

PairsPre(pairs) == [i \in DOMAIN pairs |-> pairs[i][1]]

PairsPost(pairs) == [i \in DOMAIN pairs |-> pairs[i][2]]

\* The lists of at most n balance pairs.
RECURSIVE PairLists(_)
PairLists(n) ==
    IF n = 0 THEN {<<>>} ELSE PairLists(n - 1) \cup [1..n -> BalancePairs]

\* Transactions that move the native asset only.
NativeUpdates ==
    { Update(TRUE, TRUE, TRUE, Len(pairs), PairsPre(pairs), PairsPost(pairs), <<>>, <<>>) :
        pairs \in PairLists(MaxAccounts) }

\* The balances of the transfer 1_000_000_000 -> 999_990_000, cut to length n.
ExamplePre(n) == [i \in 1..n |-> IF i % 2 = 1 THEN 1000000000 ELSE 0]

ExamplePost(n) == [i \in 1..n |-> IF i % 2 = 1 THEN 0 ELSE 999990000]

\* Transactions whose balance arrays and universe have any lengths.
LengthUpdates ==
    { Update(TRUE, TRUE, TRUE, nu, ExamplePre(lp), ExamplePost(lq), <<>>, <<>>) :
        <<nu, lp, lq>> \in (0..MaxAccounts + 1) \X (0..MaxAccounts) \X (0..MaxAccounts) }

\* Transactions that move tokens only, over a universe of three addresses.
TokenUpdates ==
    { Update(TRUE, TRUE, TRUE, 3, <<>>, <<>>,
             snapshot(slots, 1, "pre"), snapshot(slots, 1, "post")) :
        slots \in UNION { [1..m -> TokenCases] : m \in 0..MaxTokenAccounts } }

\* Transactions with three token accounts whose balances move: the least
\* that brings several increases or several decreases next to a counterpart.
MultiUpdates ==
    { Update(TRUE, TRUE, TRUE, 3, <<>>, <<>>,
             snapshot(slots, 1, "pre"), snapshot(slots, 1, "post")) :
        slots \in { <<a, b, c>> : <<a, b, c>> \in TokenCases \X TokenCases \X TokenCases } }

\* Transactions with one token account at an edge, alone or next to one
\* whose balance moves.
EdgeUpdates ==
    { Update(TRUE, TRUE, TRUE, 3, <<>>, <<>>,
             snapshot(slots, 1, "pre"), snapshot(slots, 1, "post")) :
        slots \in { <<e>> : e \in EdgeCases }
                   \cup { <<e, c>> : <<e, c>> \in EdgeCases \X TokenCases }
                   \cup { <<c, e>> : <<c, e>> \in TokenCases \X EdgeCases } }

ExampleTokens == <<TokenBalance(1, "M1", UiTokenAmount(<<"5">>, 6))>>

\* Token mint-only: no entry before, 500 of mint M at account index 3 after,
\* in a universe of four addresses.
ExampleMintOnly ==
    Update(TRUE, TRUE, TRUE, 4, <<>>, <<>>, <<>>,
           <<TokenBalance(3, "M", UiTokenAmount(<<"5", "0", "0">>, 6))>>)

\* Transactions with a part missing; what is present carries a transfer.
MissingUpdates ==
    {NoTransaction} \cup
    { Update(m, r, g, 2, ExamplePre(2), ExamplePost(2), <<>>, ExampleTokens) :
        <<m, r, g>> \in { <<FALSE, TRUE, TRUE>>, <<TRUE, FALSE, FALSE>>,
                          <<TRUE, TRUE, FALSE>>, <<FALSE, FALSE, FALSE>>,
                          <<FALSE, TRUE, FALSE>> } }

\* The lists of at most MaxKeys keys out of two keys: with repeats.
KeyLists == UNION { [1..n -> {7, 8}] : n \in 0..MaxKeys }

\* Transactions without balances whose three key lists are any such lists:
\* empty ones, and keys that repeat within a list and across lists.
KeyUpdates ==
    { [Update(TRUE, TRUE, TRUE, 0, <<>>, <<>>, <<>>, <<>>)
          EXCEPT !.account_keys = static,
                 !.loaded_writable_addresses = writable,
                 !.loaded_readonly_addresses = readonly] :
        <<static, writable, readonly>> \in KeyLists \X KeyLists \X KeyLists }

\* The transaction that changes nothing: one account of 2_000_000_000.
NoOpUpdate ==
    Update(TRUE, TRUE, TRUE, 1, <<2000000000>>, <<2000000000>>, <<>>, <<>>)

\* Transactions at the thresholds of the used-marks of Pass B and Pass C.
MarkingBalances ==
    { <<<<1000000000, 0>>, <<0, 500000000>>>>,
      <<<<1000000001, 0>>, <<0, 500000001>>>>,
      <<<<400000000, 0>>, <<0, 800000000>>>>,
      <<<<1000000000, 0, 0>>, <<0, 490000000, 1488000000>>>>,
      <<<<1000000000, 1000000000, 0>>, <<0, 0, 1769000000>>>> }

MarkingUpdates ==
    { Update(TRUE, TRUE, TRUE, Len(b[1]), b[1], b[2], <<>>, <<>>) :
        b \in MarkingBalances }

\* The transactions of the other kinds.
OtherUpdates ==
    LengthUpdates \cup TokenUpdates \cup MultiUpdates
    \cup EdgeUpdates \cup KeyUpdates \cup MissingUpdates \cup MarkingUpdates
    \cup {NoOpUpdate, ExampleMintOnly}

-----------------------------------------------------------------------------
(* The state machine: handle_update for one transaction update             *)

NoResult == [sol |-> <<>>, token |-> <<>>]

\* Largest max_records the address store is configured with.
MaxRecords == 2

\* Most transaction updates handed to the store, replays included.
MaxDeliveries == 3

\* No call of store_transaction_to_database has looked at the stores yet.
NotEntered == [stored |-> FALSE, signature_store |-> <<>>, address_store |-> <<>>]

NoSignatureData == [signature |-> "none", sol_transfers |-> <<>>,
                    token_transfers |-> <<>>]

\* Result::Err(anyhow!(..)) and a panic, as outcomes of a key function.
KeyErr == [ok |-> FALSE, value |-> "Err"]

KeyPanic == [ok |-> FALSE, value |-> "panic"]

\* No key function has been called.
KeyIdle ==
    /\ key_prefix_length = 0
    /\ key_pc = "idle"
    /\ arg_prefix = <<>>
    /\ arg_key = <<>>
    /\ made_key = KeyErr
    /\ validated = KeyErr

\* No update.
NoUpdate == [kind |-> "none", token_entry |-> "none", store |-> "none"]

\* start_monitoring has not been called.
MonitorIdle ==
    /\ mon_pc = "idle"
    /\ db_manager = FALSE
    /\ attempts = 0
    /\ ended = "none"
    /\ slept = 0
    /\ message_count = 0
    /\ transaction_count = 0
    /\ last_update = NoUpdate
    /\ returned_ok = 0
    /\ error_logged = FALSE

\* 64-bit values are held as four 16-bit limbs, least significant first.
Zero64 == <<0, 0, 0, 0>>

\* i64 values are held as a sign and a magnitude.
NoChange == [neg |-> FALSE, mag |-> Zero64]

\* No balance entry is being followed.
ArithIdle ==
    /\ overflow_checks = FALSE
    /\ arith_pc = "idle"
    /\ arith_asset = "native"
    /\ arith_entry = "both"
    /\ arith_pre = Zero64
    /\ arith_post = Zero64
    /\ arith_change = NoChange
    /\ arith_amount = Zero64
    /\ scaled = Zero64
    /\ wrapped = FALSE

Init ==
    /\ pc = "idle"
    /\ call = "print"
    /\ update = NoTransaction
    /\ addresses = <<>>
    /\ balance_changes = <<>>
    /\ used_senders = <<>>
    /\ used_receivers = <<>>
    /\ transfers = <<>>
    /\ pass_of = <<>>
    /\ sol_result = <<>>
    /\ token_changes = <<>>
    /\ token_result = <<>>
    /\ printed = NoResult
    /\ signature_data = NoSignatureData
    /\ signature_db = {}
    /\ signature_store = <<>>
    /\ address_store = <<>>
    /\ pending = <<>>
    /\ inserted = <<>>
    /\ max_records = MaxRecords
    /\ deliveries = 0
    /\ at_entry = NotEntered
    /\ ArithIdle
    /\ KeyIdle
    /\ MonitorIdle

missing_data_but_message(u) ==
    ~u.has_transaction \/ ~u.has_meta \/ ~u.has_raw

\* The let-else chain at the head of both parse functions.
missing_data(u) ==
    ~u.has_transaction \/ ~u.has_meta \/ ~u.has_raw \/ ~u.has_message

\* stream.next() yields a transaction update; handle_update starts with
\* parse_and_print_transfers.
Receive(u) ==
    /\ pc = "idle"
    /\ update' = u
    /\ call' = "print"
    /\ pc' = "parse_sol"
    /\ UNCHANGED <<addresses, balance_changes, used_senders, used_receivers,
                   transfers, pass_of, sol_result, token_changes, token_result,
                   printed, signature_data, signature_db>>
    /\ UNCHANGED store_vars
    /\ UNCHANGED side_vars

\* parse_sol_transfers up to the start of Pass A.
ParseSolBegin ==
    /\ pc = "parse_sol"
    /\ IF missing_data(update)
       THEN /\ sol_result' = <<>>
            /\ pc' = "parse_token"
            /\ UNCHANGED <<addresses, balance_changes, used_senders,
                           used_receivers, transfers, pass_of>>
       ELSE LET complete == build_complete_account_list(update)
                changes  == analyze_balance_changes(complete, update)
            IN /\ addresses' = complete
               /\ balance_changes' = changes
               /\ transfers' = <<>>
               /\ pass_of' = <<>>
               /\ IF receivers_of(changes) = <<>>
                  THEN /\ sol_result' = <<>>
                       /\ pc' = "parse_token"
                       /\ UNCHANGED <<used_senders, used_receivers>>
                  ELSE /\ used_senders' =
                              [i \in 1..Len(senders_of(changes)) |-> FALSE]
                       /\ used_receivers' =
                              [j \in 1..Len(receivers_of(changes)) |-> FALSE]
                       /\ pc' = "pass_a"
                       /\ UNCHANGED sol_result
    /\ UNCHANGED <<call, update, token_changes, token_result, printed,
                   signature_data, signature_db>>
    /\ UNCHANGED store_vars
    /\ UNCHANGED side_vars

PassState == [transfers |-> transfers, pass_of |-> pass_of,
              used_senders |-> used_senders, used_receivers |-> used_receivers]

SetPassState(st) ==
    /\ transfers' = st.transfers
    /\ pass_of' = st.pass_of
    /\ used_senders' = st.used_senders
    /\ used_receivers' = st.used_receivers

PassA ==
    /\ pc = "pass_a"
    /\ SetPassState(pass_a(1, PassState, update.signature,
                           senders_of(balance_changes),
                           receivers_of(balance_changes)))
    /\ pc' = "pass_b"
    /\ UNCHANGED <<addresses, call, update, balance_changes, sol_result,
                   token_changes,
                   token_result, printed, signature_data, signature_db>>
    /\ UNCHANGED store_vars
    /\ UNCHANGED side_vars

PassB ==
    /\ pc = "pass_b"
    /\ SetPassState(pass_b(1, PassState, update.signature,
                           senders_of(balance_changes),
                           receivers_of(balance_changes)))
    /\ pc' = "pass_c"
    /\ UNCHANGED <<addresses, call, update, balance_changes, sol_result,
                   token_changes,
                   token_result, printed, signature_data, signature_db>>
    /\ UNCHANGED store_vars
    /\ UNCHANGED side_vars

PassC ==
    /\ pc = "pass_c"
    /\ SetPassState(pass_c(1, PassState, update.signature,
                           senders_of(balance_changes),
                           receivers_of(balance_changes)))
    /\ pc' = "pass_d"
    /\ UNCHANGED <<addresses, call, update, balance_changes, sol_result,
                   token_changes,
                   token_result, printed, signature_data, signature_db>>
    /\ UNCHANGED store_vars
    /\ UNCHANGED side_vars

\* Pass D and the return of extract_transfers and parse_sol_transfers.
PassD ==
    /\ pc = "pass_d"
    /\ LET st == pass_d(1, PassState, update.signature,
                        senders_of(balance_changes),
                        receivers_of(balance_changes))
       IN /\ SetPassState(st)
          /\ sol_result' = st.transfers
    /\ pc' = "parse_token"
    /\ UNCHANGED <<addresses, call, update, balance_changes,
                   token_changes,
                   token_result, printed, signature_data, signature_db>>
    /\ UNCHANGED store_vars
    /\ UNCHANGED side_vars

\* parse_token_transfers up to the grouping by mint; the two hash maps
\* iterate in an order the program does not control.
ParseTokenBegin ==
    /\ pc = "parse_token"
    /\ IF \/ missing_data(update)
          \/ (update.pre_token_balances = <<>> /\ update.post_token_balances = <<>>)
       THEN /\ token_result' = <<>>
            /\ token_changes' = <<>>
            /\ pc' = "parsed"
       ELSE \E post_order \in Orders(DOMAIN token_map(update.post_token_balances)),
               pre_order \in Orders(DOMAIN token_map(update.pre_token_balances)) :
                /\ token_changes' = token_balance_changes(
                                        update.pre_token_balances,
                                        update.post_token_balances,
                                        post_order, pre_order)
                /\ pc' = "token_match"
                /\ UNCHANGED token_result
    /\ UNCHANGED <<addresses, call, update, balance_changes, used_senders,
                   used_receivers,
                   transfers, pass_of, sol_result, printed, signature_data,
                   signature_db>>
    /\ UNCHANGED store_vars
    /\ UNCHANGED side_vars

\* The loop over mint_groups, another hash map, and the return.
TokenMatch ==
    /\ pc = "token_match"
    /\ \E group_order \in Orders(group_mints(token_changes)) :
          token_result' = match_groups(1, group_order, update.signature,
                                       token_changes,
                                       build_complete_account_list(update))
    /\ pc' = "parsed"
    /\ UNCHANGED <<addresses, call, update, balance_changes, used_senders,
                   used_receivers,
                   transfers, pass_of, sol_result, token_changes, printed,
                   signature_data, signature_db>>
    /\ UNCHANGED store_vars
    /\ UNCHANGED side_vars

\* parse_and_print_transfers has both lists; store_transaction_to_database
\* starts: it returns at once without a transaction or when signature_exists
\* answers Ok(true), and parses again when it answers Ok(false) or Err.
StoreBegin ==
    /\ pc = "parsed"
    /\ call = "print"
    /\ printed' = [sol |-> sol_result, token |-> token_result]
    /\ \/ /\ ~update.has_transaction \/ update.signature \in signature_db
          /\ pc' = "handled"
          /\ UNCHANGED call
       \/ /\ update.has_transaction
          /\ pc' = "parse_sol"
          /\ call' = "store"
    /\ UNCHANGED <<addresses, update, balance_changes, used_senders,
                   used_receivers, transfers, pass_of, sol_result, token_changes, token_result,
                   signature_data, signature_db>>
    /\ UNCHANGED store_vars
    /\ UNCHANGED side_vars

\* store_signature_data with the lists of the second parse; the write may
\* fail, and then the error is returned to handle_update, which logs it.
StoreEnd ==
    /\ pc = "parsed"
    /\ call = "store"
    /\ signature_data' = [signature |-> update.signature,
                          sol_transfers |-> sol_result,
                          token_transfers |-> token_result]
    /\ \/ signature_db' = signature_db \cup {update.signature}
       \/ UNCHANGED signature_db
    /\ pc' = "handled"
    /\ UNCHANGED <<addresses, call, update, balance_changes, used_senders,
                   used_receivers,
                   transfers, pass_of, sol_result, token_changes, token_result,
                   printed>>
    /\ UNCHANGED store_vars
    /\ UNCHANGED side_vars

\* handle_update returns Ok(()); its locals are dropped.
Return ==
    /\ pc = "handled"
    /\ pc' = "idle"
    /\ call' = "print"
    /\ update' = NoTransaction
    /\ addresses' = <<>>
    /\ balance_changes' = <<>>
    /\ used_senders' = <<>>
    /\ used_receivers' = <<>>
    /\ transfers' = <<>>
    /\ pass_of' = <<>>
    /\ sol_result' = <<>>
    /\ token_changes' = <<>>
    /\ token_result' = <<>>
    /\ printed' = NoResult
    /\ signature_data' = NoSignatureData
    /\ UNCHANGED signature_db
    /\ UNCHANGED store_vars
    /\ UNCHANGED side_vars

Next ==
    \/ (pc = "idle" /\ \E u \in NativeUpdates : Receive(u))
    \/ (pc = "idle" /\ \E u \in OtherUpdates : Receive(u))
    \/ ParseSolBegin
    \/ PassA
    \/ PassB
    \/ PassC
    \/ PassD
    \/ ParseTokenBegin
    \/ TokenMatch
    \/ StoreBegin
    \/ StoreEnd
    \/ Return

Spec == Init /\ [][Next]_vars

-----------------------------------------------------------------------------
(* The store: store_transaction_to_database over the two stores            *)

\* parse_sol_transfers as a function of the update.
parse_sol_transfers(u) ==
    IF missing_data(u) THEN <<>>
    ELSE LET changes   == analyze_balance_changes(build_complete_account_list(u), u)
             senders   == senders_of(changes)
             receivers == receivers_of(changes)
             st0 == [transfers      |-> <<>>,
                     pass_of        |-> <<>>,
                     used_senders   |-> [i \in 1..Len(senders) |-> FALSE],
                     used_receivers |-> [j \in 1..Len(receivers) |-> FALSE]]
             st1 == pass_a(1, st0, u.signature, senders, receivers)
             st2 == pass_b(1, st1, u.signature, senders, receivers)
             st3 == pass_c(1, st2, u.signature, senders, receivers)
             st4 == pass_d(1, st3, u.signature, senders, receivers)
         IN IF receivers = <<>> THEN <<>> ELSE st4.transfers

\* The lists parse_token_transfers may return for the update.
parse_token_transfers(u) ==
    IF \/ missing_data(u)
       \/ (u.pre_token_balances = <<>> /\ u.post_token_balances = <<>>)
    THEN {<<>>}
    ELSE PossibleTokenResults(u.pre_token_balances, u.post_token_balances,
                              u.signature, build_complete_account_list(u))

\* Option::None in the sol_transfer / token_transfer field of a record.
NoTransfer == [none |-> TRUE]

AddressTransactionRecord(signature, sol_transfer, token_transfer, record_type) ==
    [signature      |-> signature,
     sol_transfer   |-> sol_transfer,
     token_transfer |-> token_transfer,
     record_type    |-> record_type]

\* The transfer_parser::SolTransfer rebuilt from the stored one: the indices
\* are not carried over.
parsed_sol_transfer(sig, st) ==
    [st EXCEPT !.signature = sig, !.from_index = 0, !.to_index = 0]

\* The add_record calls of batch_process_transaction, in call order: for
\* each native transfer the sender's then the receiver's, then the same for
\* each token transfer.
RECURSIVE sol_calls(_, _)
sol_calls(sig, sol_transfers) ==
    IF sol_transfers = <<>> THEN <<>>
    ELSE LET t == parsed_sol_transfer(sig, Head(sol_transfers))
         IN <<[address |-> t.from,
               record  |-> AddressTransactionRecord(sig, t, NoTransfer, "Sender")],
              [address |-> t.to,
               record  |-> AddressTransactionRecord(sig, t, NoTransfer, "Receiver")]>>
            \o sol_calls(sig, Tail(sol_transfers))

RECURSIVE token_calls(_, _)
token_calls(sig, token_transfers) ==
    IF token_transfers = <<>> THEN <<>>
    ELSE LET t == Head(token_transfers)
         IN <<[address |-> t.from,
               record  |-> AddressTransactionRecord(sig, NoTransfer, t, "Sender")],
              [address |-> t.to,
               record  |-> AddressTransactionRecord(sig, NoTransfer, t, "Receiver")]>>
            \o token_calls(sig, Tail(token_transfers))

batch_process_transaction(sig, sol_transfers, token_transfers) ==
    sol_calls(sig, sol_transfers) \o token_calls(sig, token_transfers)

\* storage.get(key): the value under the key, or the empty list for None.
get(store, key) == IF key \in DOMAIN store THEN store[key] ELSE <<>>

\* storage.put(key, value)
put(store, key, value) ==
    [k \in DOMAIN store \cup {key} |-> IF k = key THEN value ELSE store[k]]

\* records.truncate(n)
truncate(records, n) == SubSeq(records, 1, Min2(Len(records), n))

\* An add_record that would push the record at the end of the list.
add_record_at_end(records, record, max) == truncate(Append(records, record), max)

\* The list add_record saves: the record inserted at index 0, the list cut
\* to max.
add_record(records, record, max) == truncate(<<record>> \o records, max)

WithSignature(u, sig) == [u EXCEPT !.signature = sig]

\* The transactions the stream delivers to the store, each any number of
\* times: sig1 moves lamports from key 0 to key 1 and mints 5 tokens to key
\* 1; sig2 moves lamports from key 1 to key 0; and an update without a
\* transaction.
StoreUpdates ==
    { NoTransaction,
      WithSignature(Update(TRUE, TRUE, TRUE, 2, ExamplePre(2), ExamplePost(2),
                           <<>>, ExampleTokens), "sig1"),
      WithSignature(Update(TRUE, TRUE, TRUE, 2, <<0, 1000000000>>,
                           <<999990000, 0>>, <<>>, <<>>), "sig2") }

StoreInit ==
    /\ pc = "idle"
    /\ call = "store"
    /\ update = NoTransaction
    /\ addresses = <<>>
    /\ balance_changes = <<>>
    /\ used_senders = <<>>
    /\ used_receivers = <<>>
    /\ transfers = <<>>
    /\ pass_of = <<>>
    /\ sol_result = <<>>
    /\ token_changes = <<>>
    /\ token_result = <<>>
    /\ printed = NoResult
    /\ signature_data = NoSignatureData
    /\ signature_db = {}
    /\ signature_store = <<>>
    /\ address_store = <<>>
    /\ pending = <<>>
    /\ inserted = <<>>
    /\ max_records \in 0..MaxRecords
    /\ deliveries = 0
    /\ at_entry = NotEntered
    /\ ArithIdle
    /\ KeyIdle
    /\ MonitorIdle

\* handle_update calls store_transaction_to_database for the update; without
\* a transaction it returns Ok at once.
StoreCall(u) ==
    /\ pc = "idle"
    /\ deliveries < MaxDeliveries
    /\ deliveries' = deliveries + 1
    /\ update' = u
    /\ at_entry' = [stored          |-> u.has_transaction
                                        /\ u.signature \in DOMAIN signature_store,
                    signature_store |-> signature_store,
                    address_store   |-> address_store]
    /\ pc' = IF u.has_transaction THEN "signature_exists" ELSE "idle"
    /\ UNCHANGED <<call, addresses, balance_changes, used_senders,
                   used_receivers, transfers, pass_of, sol_result,
                   token_changes, token_result, printed, signature_data,
                   signature_db, signature_store, address_store, pending,
                   inserted, max_records>>
    /\ UNCHANGED side_vars

\* `if let Ok(exists) = signature_exists(..) { if exists { return Ok(()) } }`
\* and, past it, the two parses that fill signature_data.  The read answers
\* Ok(true) for a stored signature, Ok(false) for another, or Err.
SignatureExists ==
    /\ pc = "signature_exists"
    /\ \/ /\ update.signature \in DOMAIN signature_store
          /\ pc' = "idle"
          /\ UNCHANGED signature_data
       \/ /\ \E token_transfers \in parse_token_transfers(update) :
                signature_data' = [signature       |-> update.signature,
                                   sol_transfers   |-> parse_sol_transfers(update),
                                   token_transfers |-> token_transfers]
          /\ pc' = "store_signature_data"
    /\ UNCHANGED <<call, update, addresses, balance_changes, used_senders,
                   used_receivers, transfers, pass_of, sol_result,
                   token_changes, token_result, printed, signature_db>>
    /\ UNCHANGED store_vars
    /\ UNCHANGED side_vars

\* store_signature_data: on Err the call returns the error; on Ok the batch
\* of address records starts.
StoreSignatureData ==
    /\ pc = "store_signature_data"
    /\ \/ /\ signature_store' = put(signature_store, update.signature,
                                     signature_data)
          /\ signature_db' = signature_db \cup {update.signature}
          /\ pending' = batch_process_transaction(update.signature,
                                                  signature_data.sol_transfers,
                                                  signature_data.token_transfers)
          /\ pc' = IF pending' = <<>> THEN "idle" ELSE "batch_process_transaction"
       \/ /\ pc' = "idle"
          /\ UNCHANGED <<signature_store, signature_db, pending>>
    /\ UNCHANGED <<call, update, addresses, balance_changes, used_senders,
                   used_receivers, transfers, pass_of, sol_result,
                   token_changes, token_result, printed, signature_data,
                   address_store, inserted, max_records, deliveries, at_entry>>
    /\ UNCHANGED side_vars

\* One add_record call of the batch.  When its get or its put fails, `?`
\* ends the batch, the caller logs the error and returns Ok.
AddRecord ==
    /\ pc = "batch_process_transaction"
    /\ pending # <<>>
    /\ LET address == Head(pending).address
           record  == Head(pending).record
       IN \/ /\ address_store' =
                    put(address_store, address,
                        add_record(get(address_store, address), record,
                                   max_records))
             /\ inserted' = put(inserted, address,
                                <<record>> \o get(inserted, address))
             /\ pending' = Tail(pending)
             /\ pc' = IF pending' = <<>> THEN "idle"
                      ELSE "batch_process_transaction"
          \/ /\ pending' = <<>>
             /\ pc' = "idle"
             /\ UNCHANGED <<address_store, inserted>>
    /\ UNCHANGED <<call, update, addresses, balance_changes, used_senders,
                   used_receivers, transfers, pass_of, sol_result,
                   token_changes, token_result, printed, signature_data,
                   signature_db, signature_store, max_records, deliveries,
                   at_entry>>
    /\ UNCHANGED side_vars

StoreNext ==
    \/ (pc = "idle" /\ \E u \in StoreUpdates : StoreCall(u))
    \/ SignatureExists
    \/ StoreSignatureData
    \/ AddRecord

StoreSpec == StoreInit /\ [][StoreNext]_vars


-----------------------------------------------------------------------------
(* Properties                                                              *)

\* The observed native delta (post - pre) of the account of index idx.
DeltaAt(idx) == update.post_balances[idx + 1] - update.pre_balances[idx + 1]

\* Positions at which the native parse of the current update has returned.
SolReturned == {"parse_token", "token_match", "parsed", "handled"}

\* Positions at which analyze_balance_changes of the current update has run.
SolAnalyzed == {"pass_a", "pass_b", "pass_c", "pass_d"} \cup SolReturned

UniverseLen ==
    Len(update.account_keys) + Len(update.loaded_writable_addresses)
    + Len(update.loaded_readonly_addresses)

AllPresent ==
    update.has_transaction /\ update.has_meta /\ update.has_raw
    /\ update.has_message

C2_SameResultTwice ==
    (pc = "parsed" /\ call = "store") =>
        /\ sol_result = printed.sol
        /\ token_result = printed.token

\* C3: no transfer, native or token, has amount 0.
C3_NoZeroAmount ==
    /\ \A k \in DOMAIN transfers : transfers[k].amount >= 1
    /\ \A k \in DOMAIN sol_result : sol_result[k].amount >= 1
    /\ \A k \in DOMAIN token_result : token_result[k].amount >= 1

\* Pass C has run its greedy loop for a receiver below the dust floor that
\* two senders could have served.
C3_Witness ==
    /\ pc = "pass_d"
    /\ \E i, j, r \in DOMAIN balance_changes :
          /\ i # j
          /\ balance_changes[i].change <= -DUST_FLOOR
          /\ balance_changes[j].change <= -DUST_FLOOR
          /\ balance_changes[r].change > 0
          /\ balance_changes[r].change < DUST_FLOOR
    /\ used_senders = <<FALSE, FALSE>>
    /\ used_receivers = <<FALSE>>

\* C4: an update without transaction info, metadata, raw transaction or
\* message makes both parse functions return the empty list.
C4_MissingDataEmpty ==
    (pc \in {"parsed", "handled"} /\ ~AllPresent) =>
        sol_result = <<>> /\ token_result = <<>>

\* Both parses have returned for an update that lacks only its message and
\* whose metadata shows a native transfer and a token balance.
C4_Witness ==
    /\ pc = "parsed"
    /\ update.has_transaction /\ update.has_meta /\ update.has_raw
    /\ ~update.has_message
    /\ update.pre_balances # update.post_balances
    /\ update.post_token_balances # <<>>

\* C5: with balance arrays of different lengths, or a universe shorter than
\* the balance arrays, the native parse returns the empty list; in every
\* other case every index with a changed balance is reconciled.
C5_LengthMismatch ==
    (pc \in SolAnalyzed /\ AllPresent) =>
        IF \/ Len(update.pre_balances) # Len(update.post_balances)
           \/ UniverseLen < Len(update.pre_balances)
        THEN /\ balance_changes = <<>>
             /\ transfers = <<>>
             /\ pc \in SolReturned => sol_result = <<>>
        ELSE /\ {balance_changes[k].index : k \in DOMAIN balance_changes}
                  = {i - 1 : i \in {h \in DOMAIN update.pre_balances :
                                      update.pre_balances[h] # update.post_balances[h]}}
             /\ \A k \in DOMAIN balance_changes :
                    balance_changes[k].change = DeltaAt(balance_changes[k].index)

\* The native parse has returned for balance arrays of equal length that
\* show a transfer, over a universe with fewer addresses.
C5_Witness ==
    /\ pc = "parse_token"
    /\ AllPresent
    /\ Len(update.pre_balances) = Len(update.post_balances)
    /\ update.pre_balances # update.post_balances
    /\ UniverseLen < Len(update.pre_balances)
    /\ UniverseLen > 0
    /\ sol_result = <<>>

\* The tolerance of Pass A as the specification words it.
WithinTolerance(send, receive) ==
    \/ send = receive
    \/ /\ send > receive
       /\ send - receive <=
            (IF send \div 100 >= 10000000 THEN send \div 100 ELSE 10000000)

AccountIndices == {i - 1 : i \in DOMAIN update.pre_balances}

SenderIndices == {i \in AccountIndices : DeltaAt(i) < 0}

ReceiverIndices == {i \in AccountIndices : DeltaAt(i) > 0}

TransfersOf(pass) == {k \in DOMAIN transfers : pass_of[k] = pass}

\* used_senders / used_receivers as sets of account indices.
UsedSenderIndices ==
    {senders_of(balance_changes)[p].index :
        p \in {q \in DOMAIN used_senders : used_senders[q]}}

UsedReceiverIndices ==
    {receivers_of(balance_changes)[p].index :
        p \in {q \in DOMAIN used_receivers : used_receivers[q]}}

ExampleOneToOne ==
    <<[signature |-> "sig1", from |-> <<"bs58", 0>>, to |-> <<"bs58", 1>>,
       amount |-> 999990000, from_index |-> 0, to_index |-> 1]>>

\* C7: after Pass A the transfers are in ascending sender order, no sender
\* and no receiver occurs twice, each transfer joins a sender with the
\* lowest-index receiver within tolerance that no earlier sender took and
\* carries that receiver's delta, a sender without transfer had no such
\* receiver left, and exactly the matched accounts are marked used; the
\* example 1_000_000_000 -> 999_990_000 yields exactly one transfer.
C7_PassAFirstFit ==
    /\ pc = "pass_b" =>
        /\ \A k \in DOMAIN transfers : pass_of[k] = "A"
        /\ \A k, l \in DOMAIN transfers :
              k < l => /\ transfers[k].from_index < transfers[l].from_index
                       /\ transfers[k].to_index # transfers[l].to_index
        /\ \A k \in DOMAIN transfers :
              LET t == transfers[k]
              IN /\ t.from_index \in SenderIndices
                 /\ t.to_index \in ReceiverIndices
                 /\ WithinTolerance(-DeltaAt(t.from_index), DeltaAt(t.to_index))
                 /\ t.amount = DeltaAt(t.to_index)
                 /\ \A r \in ReceiverIndices :
                       (r < t.to_index
                        /\ WithinTolerance(-DeltaAt(t.from_index), DeltaAt(r)))
                       => \E l \in 1..(k - 1) : transfers[l].to_index = r
        /\ \A s \in SenderIndices :
              (\A k \in DOMAIN transfers : transfers[k].from_index # s) =>
                  \A r \in ReceiverIndices :
                      WithinTolerance(-DeltaAt(s), DeltaAt(r)) =>
                          \E l \in DOMAIN transfers :
                              /\ transfers[l].to_index = r
                              /\ transfers[l].from_index < s
        /\ UsedSenderIndices =
              {transfers[k].from_index : k \in DOMAIN transfers}
        /\ UsedReceiverIndices =
              {transfers[k].to_index : k \in DOMAIN transfers}
    /\ (/\ pc \in SolReturned /\ AllPresent
        /\ UniverseLen >= 2
        /\ update.pre_balances = <<1000000000, 0>>
        /\ update.post_balances = <<0, 999990000>>)
       => sol_result = ExampleOneToOne

\* Pass A has given a sender of 1_000_000_000 the receiver of 999_990_000
\* although a later, unmatched receiver has exactly 1_000_000_000.
C7_Witness ==
    /\ pc = "pass_b"
    /\ \E k \in DOMAIN transfers :
          /\ DeltaAt(transfers[k].from_index) = -1000000000
          /\ transfers[k].amount = 999990000
          /\ \E r \in ReceiverIndices \ UsedReceiverIndices :
                r > transfers[k].to_index /\ DeltaAt(r) = 1000000000

\* C8: without an account of positive native delta the native parse
\* returns no transfer, however many senders there are.
C8_NoReceiverNoTransfer ==
    (/\ pc \in SolReturned
     /\ \A i \in DOMAIN update.pre_balances \cap DOMAIN update.post_balances :
            update.post_balances[i] <= update.pre_balances[i])
    => sol_result = <<>> /\ transfers = <<>>

\* The native parse has returned for two senders above the dust floor, an
\* untouched account and no receiver.
C8_Witness ==
    /\ pc = "parse_token"
    /\ AllPresent
    /\ Len(balance_changes) = 2
    /\ Len(update.pre_balances) = 3
    /\ \A k \in DOMAIN balance_changes : balance_changes[k].change < -DUST_FLOOR
    /\ sol_result = <<>>

RECURSIVE SumAmounts(_)
SumAmounts(K) ==
    IF K = {} THEN 0
    ELSE LET k == CHOOSE x \in K : TRUE
         IN transfers[k].amount + SumAmounts(K \ {k})

\* What is left of a budget after the transfers K, never below 0.
Remaining(budget, K) ==
    IF SumAmounts(K) >= budget THEN 0 ELSE budget - SumAmounts(K)

\* A receiver of `amount` qualifies for a sender of outflow `out` in Pass B.
IsCandidate(amount, out) == amount >= 100000 /\ amount - out <= out \div 2

\* A candidate of `amount` is consumed from a remaining budget `rem`.
IsConsumed(amount, rem) == rem >= 100000 /\ amount <= rem + rem \div 10

ExampleOneToMany ==
    <<[signature |-> "sig1", from |-> <<"bs58", 0>>, to |-> <<"bs58", 1>>,
       amount |-> 1000000000, from_index |-> 0, to_index |-> 1],
      [signature |-> "sig1", from |-> <<"bs58", 0>>, to |-> <<"bs58", 100>>,
       amount |-> 490000000, from_index |-> 0, to_index |-> 2]>>

\* C9: after Pass B, every Pass B transfer comes from a sender that Pass A
\* left unmatched, goes to a receiver no earlier transfer took, and carries
\* that receiver's delta; the transfers of one sender are in descending
\* amount order; and a receiver that was unused and a candidate
\* (100_000 <= amount <= 1.5 x outflow) at the sender's turn is consumed
\* exactly when, at its place in the descending order, the remaining budget
\* is >= 100_000 and its amount is <= 110% of it.  Consumed receivers are
\* marked used.  The example of 1_500_000_000 yields its two transfers.
C9_PassBOneToMany ==
    /\ pc = "pass_c" =>
        /\ \A k \in DOMAIN transfers : pass_of[k] \in {"A", "B"}
        /\ \A k \in TransfersOf("B") :
              LET t    == transfers[k]
                  out  == -DeltaAt(t.from_index)
                  prev == {l \in TransfersOf("B") :
                             l < k /\ transfers[l].from_index = t.from_index}
              IN /\ t.from_index \in SenderIndices
                 /\ \A l \in TransfersOf("A") :
                       transfers[l].from_index # t.from_index
                 /\ t.to_index \in ReceiverIndices
                 /\ t.amount = DeltaAt(t.to_index)
                 /\ IsCandidate(t.amount, out)
                 /\ IsConsumed(t.amount, Remaining(out, prev))
                 /\ \A l \in prev : transfers[l].amount >= t.amount
                 /\ \A l \in 1..(k - 1) :
                       /\ transfers[l].to_index # t.to_index
                       /\ \/ pass_of[l] = "A"
                          \/ transfers[l].from_index <= t.from_index
        /\ \A s \in SenderIndices :
              (\A l \in TransfersOf("A") : transfers[l].from_index # s) =>
              \A r \in ReceiverIndices :
                  LET out   == -DeltaAt(s)
                      amt   == DeltaAt(r)
                      mine  == {l \in TransfersOf("B") :
                                  transfers[l].from_index = s}
                      taken == \E l \in DOMAIN transfers :
                                  /\ transfers[l].to_index = r
                                  /\ \/ pass_of[l] = "A"
                                     \/ transfers[l].from_index < s
                      ahead == {l \in mine :
                                  \/ transfers[l].amount > amt
                                  \/ /\ transfers[l].amount = amt
                                     /\ transfers[l].to_index < r}
                  IN (~taken /\ IsCandidate(amt, out)) =>
                        ((\E l \in mine : transfers[l].to_index = r)
                         <=> IsConsumed(amt, Remaining(out, ahead)))
        /\ UsedReceiverIndices =
              {transfers[k].to_index : k \in DOMAIN transfers}
    /\ (/\ pc \in SolReturned /\ AllPresent
        /\ update.pre_balances = <<1500000000, 0, 0>>
        /\ update.post_balances = <<0, 1000000000, 490000000>>)
       => sol_result = ExampleOneToMany

\* Pass B has served one sender of 1_500_000_000 with the receivers of
\* 1_000_000_000 and 490_000_000, in that order.
C9_Witness ==
    /\ pc = "pass_c"
    /\ update.pre_balances = <<1500000000, 0, 0>>
    /\ update.post_balances = <<0, 1000000000, 490000000>>
    /\ pass_of = <<"B", "B">>
    /\ transfers = ExampleOneToMany

\* C10: in a mint group with exactly one increase a and one decrease b, a
\* transfer is emitted iff max(a, b) / min(a, b) <= 10; it is then the only
\* transfer of that mint, with amount a, from the decrease account to the
\* increase account; otherwise the mint has no transfer.
C10_OneToOneRatio ==
    pc = "parsed" =>
        \A m \in group_mints(token_changes) :
            LET g   == group_of(token_changes, m)
                inc == SelectSeq(g, IsIncrease)
                dec == SelectSeq(g, IsDecrease)
                T   == {k \in DOMAIN token_result : token_result[k].mint = m}
            IN (Len(inc) = 1 /\ Len(dec) = 1) =>
                  LET a == inc[1].change
                      b == -dec[1].change
                      universe == build_complete_account_list(update)
                  IN IF Max2(a, b) <= 10 * Min2(a, b)
                     THEN /\ Cardinality(T) = 1
                          /\ \A k \in T :
                                /\ token_result[k].amount = a
                                /\ token_result[k].from =
                                      address_at(universe, dec[1].account_index)
                                /\ token_result[k].to =
                                      address_at(universe, inc[1].account_index)
                     ELSE T = {}


\* Positions at which the token parse of the current update has returned.
TokenReturned == {"parsed", "handled"}

TokenUniverse == build_complete_account_list(update)

IncreasesOf(m) == SelectSeq(group_of(token_changes, m), IsIncrease)

DecreasesOf(m) == SelectSeq(group_of(token_changes, m), IsDecrease)

\* The transfers of mint m in the returned list, in their order.
ResultOf(m) ==
    LET OfMint(t) == t.mint = m
    IN SelectSeq(token_result, OfMint)

AddressOf(c) == address_at(TokenUniverse, c.account_index)

\* max(a, b) / min(a, b) <= 10, and ratio(a, b) < ratio(c, d), exactly.
RatioAtMost10(a, b) == Max2(a, b) <= 10 * Min2(a, b)

RatioLess(a, b, c, d) == Max2(a, b) * Min2(c, d) < Max2(c, d) * Min2(a, b)

RatioEqual(a, b, c, d) == Max2(a, b) * Min2(c, d) = Max2(c, d) * Min2(a, b)

\* The position, among the decreases of mint m, of the decrease that a
\* returned transfer pairs with the n-th increase; 0 without such transfer.
PairedWith(m, n) ==
    LET hits == {i \in DOMAIN DecreasesOf(m) :
                    \E k \in DOMAIN ResultOf(m) :
                        /\ ResultOf(m)[k].to = AddressOf(IncreasesOf(m)[n])
                        /\ ResultOf(m)[k].from = AddressOf(DecreasesOf(m)[i])}
    IN IF hits = {} THEN 0 ELSE CHOOSE i \in hits : TRUE

\* A mint group with increases and decreases, but not one of each.
IsMultiGroup(m) ==
    /\ IncreasesOf(m) # <<>>
    /\ DecreasesOf(m) # <<>>
    /\ ~(Len(IncreasesOf(m)) = 1 /\ Len(DecreasesOf(m)) = 1)

\* C11: in a mint group with increases and decreases other than one of
\* each, the increases are served in discovery order; each is paired with
\* the still unused decrease of least ratio max/min among those of ratio at
\* most 10, the first of them on ties, and yields one transfer of its own
\* amount from that decrease; no increase and no decrease occurs in two
\* transfers; what stays unmatched yields nothing, no sentinel either.
C11_MultiMatch ==
    pc \in TokenReturned =>
        \A m \in group_mints(token_changes) :
            IsMultiGroup(m) =>
                LET inc == IncreasesOf(m)
                    dec == DecreasesOf(m)
                    T   == ResultOf(m)
                IN /\ \A k \in DOMAIN T :
                          /\ T[k].from # MINT_AIRDROP
                          /\ T[k].to # BURN_DESTROY
                          /\ \E n \in DOMAIN inc :
                                /\ T[k].to = AddressOf(inc[n])
                                /\ T[k].amount = inc[n].change
                                /\ T[k].decimals = inc[n].decimals
                                /\ PairedWith(m, n) # 0
                                /\ T[k].from = AddressOf(dec[PairedWith(m, n)])
                                /\ \A l \in 1..(k - 1) : \E h \in 1..(n - 1) :
                                        T[l].to = AddressOf(inc[h])
                   /\ \A k, l \in DOMAIN T :
                          k # l => T[k].to # T[l].to /\ T[k].from # T[l].from
                   /\ \A n \in DOMAIN inc :
                          LET used  == {PairedWith(m, h) : h \in 1..(n - 1)}
                              cands == {i \in DOMAIN dec \ used :
                                          RatioAtMost10(-dec[i].change, inc[n].change)}
                              p     == PairedWith(m, n)
                          IN IF cands = {} THEN p = 0
                             ELSE /\ p \in cands
                                  /\ \A j \in cands \ {p} :
                                        \/ RatioLess(-dec[p].change, inc[n].change,
                                                     -dec[j].change, inc[n].change)
                                        \/ /\ RatioEqual(-dec[p].change, inc[n].change,
                                                          -dec[j].change, inc[n].change)
                                           /\ p < j

\* The token parse has returned for a mint with one increase and two
\* decreases of equal ratio, of which the first was taken.
C11_Witness ==
    /\ pc = "parsed"
    /\ \E m \in group_mints(token_changes) :
          /\ Len(IncreasesOf(m)) = 1
          /\ Len(DecreasesOf(m)) = 2
          /\ DecreasesOf(m)[1].change = DecreasesOf(m)[2].change
          /\ PairedWith(m, 1) = 1


\* C12: for a mint group with increases only, the returned transfers of
\* that mint are one MINT/AIRDROP transfer per increase, to its account, of
\* its amount, mint and decimals; with decreases only, one transfer to
\* BURN/DESTROY per decrease, of its magnitude; a group with both yields no
\* transfer from or to a sentinel; and 500 of M appearing at index 3 yields
\* the single transfer MINT/AIRDROP -> universe[3].
C12_Sentinels ==
    pc \in TokenReturned =>
        /\ \A k \in DOMAIN token_result :
              token_result[k].mint \in group_mints(token_changes)
        /\ \A m \in group_mints(token_changes) :
              LET inc == IncreasesOf(m)
                  dec == DecreasesOf(m)
                  T   == ResultOf(m)
              IN /\ (inc # <<>> /\ dec = <<>>) =>
                        T = [n \in DOMAIN inc |->
                                TokenTransfer(update.signature, MINT_AIRDROP,
                                              AddressOf(inc[n]), inc[n].change,
                                              m, inc[n].decimals)]
                 /\ (inc = <<>> /\ dec # <<>>) =>
                        T = [n \in DOMAIN dec |->
                                TokenTransfer(update.signature, AddressOf(dec[n]),
                                              BURN_DESTROY, -dec[n].change,
                                              m, dec[n].decimals)]
                 /\ (inc # <<>> /\ dec # <<>>) =>
                        \A k \in DOMAIN T :
                            T[k].from # MINT_AIRDROP /\ T[k].to # BURN_DESTROY
        /\ update = ExampleMintOnly =>
              token_result = <<TokenTransfer("sig1", MINT_AIRDROP, bs58_encode(200),
                                             500, "M", 6)>>

\* The token parse has returned for a transaction in which one mint only
\* grew and another only shrank, with one sentinel transfer per change.
C12_Witness ==
    /\ pc = "parsed"
    /\ \E m \in group_mints(token_changes) :
          /\ IncreasesOf(m) # <<>>
          /\ DecreasesOf(m) = <<>>
          /\ Len(ResultOf(m)) = Len(IncreasesOf(m))
    /\ \E m \in group_mints(token_changes) :
          /\ IncreasesOf(m) = <<>>
          /\ DecreasesOf(m) # <<>>
          /\ Len(ResultOf(m)) = Len(DecreasesOf(m))


\* Positions at which balance_changes of the token parse is complete.
TokenAnalyzed == {"token_match"} \cup TokenReturned

TokenKeys(list) == {key_of(list[i]) : i \in DOMAIN list}

\* The entry of a snapshot list under key k.
EntryOf(list, k) == list[CHOOSE i \in DOMAIN list : key_of(list[i]) = k]

\* The entry carries an amount text that is an unsigned integer.
HasValidAmount(entry) ==
    entry.ui_token_amount.some /\ parse_u64(entry.ui_token_amount.amount).ok

ParsedAmount(entry) == parse_u64(entry.ui_token_amount.amount).value

\* The deltas the diff construction is to record for key k: none or one.
ExpectedDeltas(k) ==
    LET pre_list  == update.pre_token_balances
        post_list == update.post_token_balances
    IN IF k \in TokenKeys(pre_list) /\ k \in TokenKeys(post_list)
       THEN LET pre == EntryOf(pre_list, k)
                post == EntryOf(post_list, k)
            IN IF HasValidAmount(pre) /\ HasValidAmount(post)
                  /\ ParsedAmount(pre) # ParsedAmount(post)
               THEN {TokenChange(k[1], k[2], ParsedAmount(post) - ParsedAmount(pre),
                                 post.ui_token_amount.decimals)}
               ELSE {}
       ELSE IF k \in TokenKeys(post_list)
       THEN LET post == EntryOf(post_list, k)
            IN IF HasValidAmount(post) /\ ParsedAmount(post) > 0
               THEN {TokenChange(k[1], k[2], ParsedAmount(post),
                                 post.ui_token_amount.decimals)}
               ELSE {}
       ELSE LET pre == EntryOf(pre_list, k)
            IN IF HasValidAmount(pre) /\ ParsedAmount(pre) > 0
               THEN {TokenChange(k[1], k[2], -ParsedAmount(pre),
                                 pre.ui_token_amount.decimals)}
               ELSE {}

AllTokenKeys ==
    TokenKeys(update.pre_token_balances) \cup TokenKeys(update.post_token_balances)

\* C13: once the token diff is built for a complete update, the recorded
\* deltas are, each once, exactly these: for a key in both snapshots whose
\* parsed amounts differ, post - pre with the decimals of the post entry;
\* for a key only in post with post > 0, +post; for a key only in pre with
\* pre > 0, -pre.  A key without delta (unchanged, or opened or closed at
\* zero) is the account of no returned transfer of its mint.
C13_TokenDiff ==
    (pc \in TokenAnalyzed /\ ~missing_data(update)) =>
        /\ {token_changes[i] : i \in DOMAIN token_changes}
              = UNION {ExpectedDeltas(k) : k \in AllTokenKeys}
        /\ \A i, j \in DOMAIN token_changes :
              i # j => token_changes[i] # token_changes[j]
        /\ pc \in TokenReturned =>
              \A k \in AllTokenKeys :
                  ExpectedDeltas(k) = {} =>
                      \A t \in DOMAIN token_result :
                          token_result[t].mint = k[2] =>
                              /\ token_result[t].from # address_at(TokenUniverse, k[1])
                              /\ token_result[t].to # address_at(TokenUniverse, k[1])

\* The diff is built for a transaction with a key whose balance moved from
\* 4 (9 decimals) to 55 (6 decimals), a key only in post and a key only in
\* pre: three deltas, the first +51 with 6 decimals.
C13_Witness ==
    /\ pc = "token_match"
    /\ Len(token_changes) = 3
    /\ \E i \in DOMAIN token_changes :
          /\ token_changes[i].change = 51
          /\ token_changes[i].decimals = 6
          /\ key_of(token_changes[i]) \in TokenKeys(update.pre_token_balances)
    /\ \E i \in DOMAIN token_changes :
          /\ token_changes[i].change > 0
          /\ key_of(token_changes[i]) \notin TokenKeys(update.pre_token_balances)
    /\ \E i \in DOMAIN token_changes :
          /\ token_changes[i].change < 0
          /\ key_of(token_changes[i]) \notin TokenKeys(update.post_token_balances)


\* The text is an unsigned decimal integer: digits, after an optional '+'.
IsUnsignedInteger(chars) ==
    LET body == IF chars # <<>> /\ Head(chars) = "+" THEN Tail(chars) ELSE chars
    IN body # <<>> /\ \A i \in DOMAIN body : IsDigit(body[i])

IsOffending(entry) ==
    entry.ui_token_amount.some /\ ~IsUnsignedInteger(entry.ui_token_amount.amount)

\* The keys with an entry, before or after, whose amount is no unsigned
\* integer.
OffendingKeys ==
    {key_of(update.pre_token_balances[i]) :
        i \in {h \in DOMAIN update.pre_token_balances :
                  IsOffending(update.pre_token_balances[h])}}
    \cup
    {key_of(update.post_token_balances[i]) :
        i \in {h \in DOMAIN update.post_token_balances :
                  IsOffending(update.post_token_balances[h])}}

\* The snapshot list without the entries of the keys K.
WithoutKeys(list, K) ==
    LET Kept(tb) == key_of(tb) \notin K
    IN SelectSeq(list, Kept)

\* C14: when the token parse has returned for a complete update with an
\* amount text that is no unsigned integer, no delta was recorded for the
\* key of such an entry, and the returned list is one the parse can return
\* for the snapshots with the entries of those keys taken out of both;
\* there is no position at which the parse fails.
C14_ParseErrorIsolation ==
    (pc \in TokenReturned /\ ~missing_data(update) /\ OffendingKeys # {}) =>
        /\ \A i \in DOMAIN token_changes :
              key_of(token_changes[i]) \notin OffendingKeys
        /\ token_result \in PossibleTokenResults(
                WithoutKeys(update.pre_token_balances, OffendingKeys),
                WithoutKeys(update.post_token_balances, OffendingKeys),
                update.signature, TokenUniverse)

\* The token parse has returned a transfer for a transaction in which
\* another key carries an amount text that is no unsigned integer, next to
\* a valid amount on its other side.
C14_Witness ==
    /\ pc = "parsed"
    /\ token_result # <<>>
    /\ \E k \in OffendingKeys :
          /\ k \in TokenKeys(update.pre_token_balances)
          /\ k \in TokenKeys(update.post_token_balances)


\* AccountUniverse[i], counted from 0, read off the three key lists of the
\* message and the loaded addresses; the placeholder beyond its end.
UniverseAt(i) ==
    LET ns == Len(update.account_keys)
        nw == Len(update.loaded_writable_addresses)
    IN IF i < ns THEN bs58_encode(update.account_keys[i + 1])
       ELSE IF i < ns + nw
       THEN bs58_encode(update.loaded_writable_addresses[i - ns + 1])
       ELSE bs58_encode(update.loaded_readonly_addresses[i - ns - nw + 1])

Resolved(i) == IF i < UniverseLen THEN UniverseAt(i) ELSE unknown_(i)

\* The recorded deltas of mint m, by key, as the snapshots determine them.
DeltasOfMint(m) ==
    UNION {ExpectedDeltas(k) : k \in {h \in AllTokenKeys : h[2] = m}}

\* C15: a returned native transfer names, as from and to, the universe
\* addresses of its from_index and to_index, which are an account whose
\* balance fell and one whose balance rose, both within the universe; a
\* returned token transfer names, where it names no sentinel, the address
\* of the index of an account of its mint whose balance fell (from) or
\* rose by the amount (to): the universe address at that index, or
\* unknown_<index> when the index is beyond the universe.
C15_IndexResolution ==
    /\ pc \in SolReturned =>
          \A k \in DOMAIN sol_result :
              /\ sol_result[k].from_index \in SenderIndices
              /\ sol_result[k].to_index \in ReceiverIndices
              /\ sol_result[k].from_index < UniverseLen
              /\ sol_result[k].to_index < UniverseLen
              /\ sol_result[k].from = UniverseAt(sol_result[k].from_index)
              /\ sol_result[k].to = UniverseAt(sol_result[k].to_index)
    /\ (pc \in TokenReturned /\ ~missing_data(update)) =>
          \A k \in DOMAIN token_result :
              LET t == token_result[k]
              IN /\ t.from # MINT_AIRDROP =>
                        \E d \in DeltasOfMint(t.mint) :
                            d.change < 0 /\ t.from = Resolved(d.account_index)
                 /\ t.to # BURN_DESTROY =>
                        \E d \in DeltasOfMint(t.mint) :
                            /\ d.change = t.amount
                            /\ t.to = Resolved(d.account_index)

\* The token parse has returned a transfer from the account at index 2,
\* inside the universe of three, to the account at index 3, beyond it.
C15_Witness ==
    /\ pc = "parsed"
    /\ UniverseLen = 3
    /\ \E k \in DOMAIN token_result :
          /\ token_result[k].from = bs58_encode(100)
          /\ token_result[k].to = unknown_(3)


\* C16: the list build_complete_account_list returned for a complete update
\* has the summed length of the static keys, the loaded writable and the
\* loaded readonly addresses, and holds the encoded static keys, then the
\* writable, then the readonly addresses, each at its own position; it is
\* empty when the three lists are.
C16_UniverseConstruction ==
    (pc \in SolAnalyzed /\ ~missing_data(update)) =>
        LET ns == Len(update.account_keys)
            nw == Len(update.loaded_writable_addresses)
            nr == Len(update.loaded_readonly_addresses)
        IN /\ Len(addresses) = ns + nw + nr
           /\ \A i \in 1..ns : addresses[i] = bs58_encode(update.account_keys[i])
           /\ \A i \in 1..nw :
                 addresses[ns + i] = bs58_encode(update.loaded_writable_addresses[i])
           /\ \A i \in 1..nr :
                 addresses[ns + nw + i] =
                     bs58_encode(update.loaded_readonly_addresses[i])
           /\ (ns = 0 /\ nw = 0 /\ nr = 0) => addresses = <<>>

\* The list was built for a transaction whose static keys repeat a key,
\* whose writable list is empty and whose readonly list holds that key again.
C16_Witness ==
    /\ pc = "parse_token"
    /\ Len(update.account_keys) = 2
    /\ update.account_keys[1] = update.account_keys[2]
    /\ update.loaded_writable_addresses = <<>>
    /\ update.loaded_readonly_addresses = <<update.account_keys[1]>>
    /\ Len(addresses) = 3


\* The records of a list, as a set.
RecordsIn(list) == {list[i] : i \in DOMAIN list}

\* C17: while and after store_transaction_to_database runs for a signature
\* that was stored when it was called, the signature store and every
\* address history are as the call found them; and over all deliveries no
\* address history was given the same record of a signature twice.
C17_IdempotentOnSignature ==
    /\ at_entry.stored =>
          /\ signature_store = at_entry.signature_store
          /\ address_store = at_entry.address_store
    /\ \A a \in DOMAIN inserted :
          \A i, j \in DOMAIN inserted[a] :
              i # j => inserted[a][i] # inserted[a][j]

\* C18: every address history holds at most max_records records, and they
\* are the most recently saved records of that address, newest first: the
\* first max_records of all records ever saved for it in reverse order of
\* insertion, so that index 0 holds the last one saved.
C18_BoundedNewestFirst ==
    /\ DOMAIN address_store = DOMAIN inserted
    /\ \A a \in DOMAIN address_store :
          LET records == address_store[a]
              log     == inserted[a]
          IN /\ Len(records) <= max_records
             /\ Len(records) = IF Len(log) < max_records THEN Len(log)
                                ELSE max_records
             /\ \A i \in DOMAIN records : records[i] = log[i]

\* An address history is full and a third record was saved for the address:
\* the oldest one is gone.
C18_Witness ==
    /\ max_records = 2
    /\ \E a \in DOMAIN address_store :
          /\ Len(inserted[a]) = 3
          /\ Len(address_store[a]) = 2
          /\ address_store[a][1] = inserted[a][1]
          /\ inserted[a][3] \notin RecordsIn(address_store[a])

\* C19: when store_transaction_to_database has returned, every transfer of
\* every stored signature record has had its Sender record saved under its
\* from address and its Receiver record under its to address.
C19_IndexedUnderBoth ==
    pc = "idle" =>
        \A sig \in DOMAIN signature_store :
            LET data == signature_store[sig]
            IN /\ \A i \in DOMAIN data.sol_transfers :
                     LET t == parsed_sol_transfer(sig, data.sol_transfers[i])
                     IN /\ AddressTransactionRecord(sig, t, NoTransfer, "Sender")
                              \in RecordsIn(get(inserted, t.from))
                        /\ AddressTransactionRecord(sig, t, NoTransfer, "Receiver")
                              \in RecordsIn(get(inserted, t.to))
               /\ \A i \in DOMAIN data.token_transfers :
                     LET t == data.token_transfers[i]
                     IN /\ AddressTransactionRecord(sig, NoTransfer, t, "Sender")
                              \in RecordsIn(get(inserted, t.from))
                        /\ AddressTransactionRecord(sig, NoTransfer, t, "Receiver")
                              \in RecordsIn(get(inserted, t.to))


PassRank(pass) ==
    CASE pass = "A" -> 1 [] pass = "B" -> 2 [] pass = "C" -> 3 [] pass = "D" -> 4

\* The list returned is the list as pushed, pass after pass.
InPassOrder ==
    /\ sol_result = transfers
    /\ \A k, l \in DOMAIN transfers :
          k < l => PassRank(pass_of[k]) <= PassRank(pass_of[l])

\* Within the pass, the transfers are in ascending order of sender index.
InSenderOrder(pass) ==
    \A k, l \in TransfersOf(pass) :
        k < l => transfers[k].from_index <= transfers[l].from_index

-----------------------------------------------------------------------------
(* The used-marks of Pass B, Pass C and Pass D                             *)

\* The senders and receivers in the order extract_transfers holds them.
Senders == senders_of(balance_changes)

Receivers == receivers_of(balance_changes)

\* The transfers of a pass from / to an account index.
FromIn(pass, idx) == {k \in TransfersOf(pass) : transfers[k].from_index = idx}

ToIn(pass, idx) == {k \in TransfersOf(pass) : transfers[k].to_index = idx}

\* The senders that enter the Pass B loop body: not matched in Pass A.
PassBSenders ==
    {p \in DOMAIN used_senders : FromIn("A", Senders[p].index) = {}}

\* C23 as stated: at the end of Pass B a sender that Pass A left unmatched
\* is marked used if and only if the receivers matched to it consumed at
\* least 50% of its outflow, exactly 50% included.
C23_HalfConsumedMarked ==
    pc = "pass_c" =>
        \A p \in PassBSenders :
            LET out      == -Senders[p].change
                consumed == SumAmounts(FromIn("B", Senders[p].index))
            IN used_senders[p] <=> consumed >= out - consumed

\* C23 amended: at the end of Pass B a sender that Pass A left unmatched is
\* marked used if and only if what is left of its outflow after the
\* receivers matched to it (never below 0) is less than half of the outflow,
\* the half rounded down; a sender of which exactly 50% was consumed stays
\* unmarked.
C23_MoreThanHalfConsumedMarked ==
    pc = "pass_c" =>
        \A p \in PassBSenders :
            LET out == -Senders[p].change
                rem == Remaining(out, FromIn("B", Senders[p].index))
            IN used_senders[p] <=> rem < out \div 2

\* Pass B has consumed exactly half of a sender's outflow and left the
\* sender unmarked.
C23_Witness ==
    /\ pc = "pass_c"
    /\ \E p \in PassBSenders :
          LET out      == -Senders[p].change
              consumed == SumAmounts(FromIn("B", Senders[p].index))
          IN /\ consumed > 0
             /\ consumed = out - consumed
             /\ ~used_senders[p]

\* The delta of the account at an index, as analyze_balance_changes kept it.
ChangeAt(idx) ==
    LET n == CHOOSE m \in DOMAIN balance_changes :
                 balance_changes[m].index = idx
    IN balance_changes[n].change

\* Whether a sender left Pass B marked used (by Pass A or by Pass B).
UsedAfterB(p) ==
    \/ FromIn("A", Senders[p].index) # {}
    \/ Remaining(-Senders[p].change, FromIn("B", Senders[p].index))
          < (-Senders[p].change) \div 2

\* The receivers that enter the Pass C loop body: unmatched after Pass B.
PassCReceivers ==
    {j \in DOMAIN used_receivers :
        /\ ToIn("A", Receivers[j].index) = {}
        /\ ToIn("B", Receivers[j].index) = {}}

\* remaining_needed of the receiver of Pass C transfer k when k was pushed.
NeedBefore(k) ==
    Remaining(ChangeAt(transfers[k].to_index),
              {l \in ToIn("C", transfers[k].to_index) : l < k})

\* used_amount of Pass C transfer k: the outflow, capped at 110% of the need.
UsedAmount(k) ==
    Min2(-ChangeAt(transfers[k].from_index), MulDiv(NeedBefore(k), 11, 10))

\* Pass C transfer k marked its sender used.
MarksSender(k) ==
    UsedAmount(k) >= MulDiv(-ChangeAt(transfers[k].from_index), 8, 10)

\* x is at least pct percent of y, without rounding.
AtLeastPercent(x, pct, y) ==
    \/ x > MulDiv(y, pct, 100)
    \/ x = MulDiv(y, pct, 100) /\ ((y % 100) * pct) % 100 = 0

\* Sender p was marked used before Pass C reached the receiver at ridx.
UsedBeforeTurn(p, ridx) ==
    \/ UsedAfterB(p)
    \/ \E k \in FromIn("C", Senders[p].index) :
          transfers[k].to_index < ridx /\ MarksSender(k)

\* Every Pass C transfer goes to a receiver unmatched after Pass B, from a
\* sender of outflow >= 100_000 that was unused at the receiver's turn, while
\* the need was >= 100_000, with amount min(outflow, need); the senders of
\* one receiver come in descending outflow order; and a sender is consumed
\* exactly when it is such a candidate and the need left by the candidates
\* ahead of it is >= 100_000.
PassCConsumption ==
    /\ \A k \in TransfersOf("C") :
          LET t == transfers[k]
              S == -ChangeAt(t.from_index)
          IN /\ \E j \in PassCReceivers : Receivers[j].index = t.to_index
             /\ S >= DUST_FLOOR
             /\ NeedBefore(k) >= DUST_FLOOR
             /\ t.amount = Min2(S, NeedBefore(k))
             /\ \A l \in ToIn("C", t.to_index) :
                   l < k => /\ transfers[l].from_index # t.from_index
                            /\ -ChangeAt(transfers[l].from_index) >= S
    /\ \A j \in PassCReceivers : \A p \in DOMAIN used_senders :
          LET ridx  == Receivers[j].index
              sidx  == Senders[p].index
              S     == -Senders[p].change
              ahead == {l \in ToIn("C", ridx) :
                          LET Sl == -ChangeAt(transfers[l].from_index)
                          IN \/ Sl > S
                             \/ Sl = S /\ transfers[l].from_index < sidx}
          IN (\E k \in ToIn("C", ridx) : transfers[k].from_index = sidx)
             <=> /\ S >= DUST_FLOOR
                 /\ ~UsedBeforeTurn(p, ridx)
                 /\ Remaining(Receivers[j].change, ahead) >= DUST_FLOOR

\* C24 as stated: after Pass C, a receiver that Pass B left unmatched is
\* marked used if and only if its Pass C transfers cover at least 50% of its
\* delta, and a sender is marked used by Pass C if and only if the amount of
\* one of its Pass C transfers is at least 80% of its outflow.
C24_MarkedByEmittedAmount ==
    pc = "pass_d" =>
        /\ \A j \in PassCReceivers :
              LET R       == Receivers[j].change
                  covered == SumAmounts(ToIn("C", Receivers[j].index))
              IN used_receivers[j] <=> covered >= R - covered
        /\ \A p \in DOMAIN used_senders :
              used_senders[p] <=>
                 \/ UsedAfterB(p)
                 \/ \E k \in FromIn("C", Senders[p].index) :
                       AtLeastPercent(transfers[k].amount, 80,
                                      -Senders[p].change)

\* C24 amended: Pass C consumes, for each receiver unmatched after Pass B,
\* the unused senders of outflow >= 100_000 in descending outflow order until
\* the need is < 100_000; the receiver is marked used if and only if the need
\* left is less than half its delta (rounded down), and a sender is marked
\* used if and only if, for one of its transfers, min(outflow, 110% of the
\* need before that transfer) is at least 80% of the outflow (rounded down).
C24_PassCMarking ==
    pc = "pass_d" =>
        /\ PassCConsumption
        /\ \A j \in DOMAIN used_receivers :
              IF j \in PassCReceivers
              THEN used_receivers[j] <=>
                     Remaining(Receivers[j].change,
                               ToIn("C", Receivers[j].index))
                        < Receivers[j].change \div 2
              ELSE used_receivers[j]
        /\ \A p \in DOMAIN used_senders :
              used_senders[p] <=>
                 \/ UsedAfterB(p)
                 \/ \E k \in FromIn("C", Senders[p].index) : MarksSender(k)

\* Pass C has marked a sender used although the transfer emitted from it is
\* below 80% of its outflow: its outflow is within 110% of the need.
C24_Witness ==
    /\ pc = "pass_d"
    /\ \E k \in TransfersOf("C") :
          /\ MarksSender(k)
          /\ ~AtLeastPercent(transfers[k].amount, 80,
                             -ChangeAt(transfers[k].from_index))
          /\ \E l \in ToIn("C", transfers[k].to_index) : l < k

\* The receivers Pass D acts on: still unmatched, delta > 1_000_000.
PassDReceivers ==
    {j \in DOMAIN used_receivers :
        ~used_receivers[j] /\ Receivers[j].change > FALLBACK_FLOOR}

\* The senders Pass D may pair them with: still unmatched, outflow > 100_000.
PassDSenders ==
    {p \in DOMAIN used_senders :
        ~used_senders[p] /\ -Senders[p].change > DUST_FLOOR}

\* C25: after Pass D, every receiver that Pass C left unmatched with a delta
\* > 1_000_000 is the target of exactly one Pass D transfer, from the first
\* still-unmatched sender of outflow > 100_000 and for the receiver's full
\* delta, if such a sender exists; every other receiver, and every receiver
\* when no such sender remains, is the target of no Pass D transfer.
C25_PassDFallback ==
    pc = "parse_token" =>
        \A j \in DOMAIN used_receivers :
            LET made == ToIn("D", Receivers[j].index)
            IN IF j \in PassDReceivers /\ PassDSenders # {}
               THEN \E k \in made :
                       LET p == CHOOSE q \in PassDSenders :
                                    \A r \in PassDSenders : q <= r
                       IN /\ made = {k}
                          /\ transfers[k].from_index = Senders[p].index
                          /\ transfers[k].amount = Receivers[j].change
               ELSE made = {}

\* Pass D has run with a receiver of delta > 1_000_000 still unmatched.
C25_Witness ==
    /\ pc = "parse_token"
    /\ PassDReceivers # {}
    /\ TransfersOf("C") # {}

\* C27: at the start of Pass D there is never both a still-unmatched
\* receiver of delta > 1_000_000 and a still-unmatched sender of outflow
\* > 100_000, and no transfer of any result comes from Pass D.
C27_PassDNeverFires ==
    /\ pc = "pass_d" => (PassDReceivers = {} \/ PassDSenders = {})
    /\ \A k \in DOMAIN transfers : pass_of[k] \in {"A", "B", "C"}

\* Pass D starts with a receiver of delta > 1_000_000 that Pass C served
\* and left unmatched, every sender it drew on being marked used.
C27_Witness ==
    /\ pc = "pass_d"
    /\ \E j \in PassDReceivers :
          /\ ToIn("C", Receivers[j].index) # {}
          /\ \A k \in ToIn("C", Receivers[j].index) : MarksSender(k)

-----------------------------------------------------------------------------
(* Conservation, direction and uniqueness of the native transfers          *)

\* The transfers of all passes from / to an account index.
AllFrom(idx) == {k \in DOMAIN transfers : transfers[k].from_index = idx}

AllTo(idx) == {k \in DOMAIN transfers : transfers[k].to_index = idx}

\* C28: in every native result the amounts of the transfers to one receiver
\* sum to at most the receiver's positive delta, and a receiver matched in
\* Pass A or Pass B is the target of exactly one transfer.
C28_ReceiverConservation ==
    pc = "parse_token" =>
        \A j \in DOMAIN Receivers :
            LET idx == Receivers[j].index
            IN /\ SumAmounts(AllTo(idx)) <= Receivers[j].change
               /\ (ToIn("A", idx) \cup ToIn("B", idx) # {})
                     => Cardinality(AllTo(idx)) = 1

\* A receiver served by two senders in Pass C for exactly its delta.
C28_Witness ==
    /\ pc = "parse_token"
    /\ \E j \in DOMAIN Receivers :
          /\ Cardinality(ToIn("C", Receivers[j].index)) >= 2
          /\ SumAmounts(AllTo(Receivers[j].index)) = Receivers[j].change

\* C29: in every native result the amounts of the transfers from one sender
\* sum to at most 110% of the sender's outflow, and a sender that Pass B
\* drew on is the source of no Pass C or Pass D transfer.
C29_SenderConservation ==
    pc = "parse_token" =>
        \A p \in DOMAIN Senders :
            LET idx == Senders[p].index
            IN /\ SumAmounts(AllFrom(idx))
                    <= MulDiv(-Senders[p].change, 11, 10)
               /\ FromIn("B", idx) # {}
                     => FromIn("C", idx) \cup FromIn("D", idx) = {}

\* C30: every native transfer goes from an account of strictly negative
\* delta to an account of strictly positive delta, and no two transfers of
\* one result share their (from_index, to_index) pair.
C30_DirectionAndUniqueness ==
    pc \in SolAnalyzed =>
        /\ \A k \in DOMAIN transfers :
              /\ \E p \in DOMAIN Senders :
                    /\ Senders[p].index = transfers[k].from_index
                    /\ Senders[p].change < 0
                    /\ DeltaAt(transfers[k].from_index) < 0
              /\ \E j \in DOMAIN Receivers :
                    /\ Receivers[j].index = transfers[k].to_index
                    /\ Receivers[j].change > 0
                    /\ DeltaAt(transfers[k].to_index) > 0
              /\ transfers[k].from_index # transfers[k].to_index
        /\ \A k, l \in DOMAIN transfers :
              (/\ transfers[k].from_index = transfers[l].from_index
               /\ transfers[k].to_index = transfers[l].to_index) => k = l
        /\ Len(Senders) = 0 => transfers = <<>>

\* A result with two transfers that share their receiver and differ in
\* their sender.
C30_Witness ==
    /\ pc = "parse_token"
    /\ \E k, l \in DOMAIN transfers :
          /\ transfers[k].to_index = transfers[l].to_index
          /\ transfers[k].from_index # transfers[l].from_index

-----------------------------------------------------------------------------
(* The parser's 64-bit arithmetic on one balance entry                     *)

\* The base of a limb.
Limb == 65536

\* u64: a < b
less(a, b) ==
    \E i \in 1..4 : a[i] < b[i] /\ \A j \in (i + 1)..4 : a[j] = b[j]

\* u64 addition, subtraction, product with and quotient by a small number;
\* each returns the 64 bits kept and whether bits were lost.
add64(a, b) ==
    LET s1 == a[1] + b[1]
        s2 == a[2] + b[2] + s1 \div Limb
        s3 == a[3] + b[3] + s2 \div Limb
        s4 == a[4] + b[4] + s3 \div Limb
    IN [value    |-> <<s1 % Limb, s2 % Limb, s3 % Limb, s4 % Limb>>,
        overflow |-> s4 >= Limb]

sub64(a, b) ==
    LET d1 == a[1] - b[1]
        d2 == a[2] - b[2] - (IF d1 < 0 THEN 1 ELSE 0)
        d3 == a[3] - b[3] - (IF d2 < 0 THEN 1 ELSE 0)
        d4 == a[4] - b[4] - (IF d3 < 0 THEN 1 ELSE 0)
    IN [value    |-> <<d1 % Limb, d2 % Limb, d3 % Limb, d4 % Limb>>,
        overflow |-> d4 < 0]

mul64(a, m) ==
    LET p1 == a[1] * m
        p2 == a[2] * m + p1 \div Limb
        p3 == a[3] * m + p2 \div Limb
        p4 == a[4] * m + p3 \div Limb
    IN [value    |-> <<p1 % Limb, p2 % Limb, p3 % Limb, p4 % Limb>>,
        overflow |-> p4 >= Limb]

div64(a, d) ==
    LET t4 == a[4]
        t3 == (t4 % d) * Limb + a[3]
        t2 == (t3 % d) * Limb + a[2]
        t1 == (t2 % d) * Limb + a[1]
    IN <<t1 \div d, t2 \div d, t3 \div d, t4 \div d>>

\* 2^63, the magnitude of i64::MIN.
TwoTo63 == <<0, 0, 0, 32768>>

\* 100_000 as a u64.
DustFloor64 == <<DUST_FLOOR % Limb, DUST_FLOOR \div Limb, 0, 0>>

\* `x as i64`: values from 2^63 on become x - 2^64.
as_i64(x) ==
    IF less(x, TwoTo63) THEN [neg |-> FALSE, mag |-> x]
    ELSE [neg |-> TRUE, mag |-> sub64(Zero64, x).value]

\* `c as u64`: negative values become c + 2^64.
as_u64(c) ==
    IF c.neg THEN sub64(Zero64, c.mag).value ELSE c.mag

\* The integer -c.
minus(c) ==
    IF c.mag = Zero64 THEN c ELSE [neg |-> ~c.neg, mag |-> c.mag]

\* The integer x + y.
plus(x, y) ==
    IF x.neg = y.neg THEN [neg |-> x.neg, mag |-> add64(x.mag, y.mag).value]
    ELSE IF x.mag = y.mag THEN NoChange
    ELSE IF less(x.mag, y.mag)
         THEN [neg |-> y.neg, mag |-> sub64(y.mag, x.mag).value]
    ELSE [neg |-> x.neg, mag |-> sub64(x.mag, y.mag).value]

\* An integer fits an i64.
in_i64(c) ==
    IF c.neg THEN ~less(TwoTo63, c.mag) ELSE less(c.mag, TwoTo63)

\* What an i64 operation yields for the integer e: e itself, or e wrapped
\* around by 2^64 with the overflow reported.
i64_result(e) ==
    IF in_i64(e) THEN [value |-> e, overflow |-> FALSE]
    ELSE [value    |-> [neg |-> ~e.neg, mag |-> sub64(Zero64, e.mag).value],
          overflow |-> TRUE]

\* i64: a - b and -a.
i64_sub(a, b) == i64_result(plus(a, minus(b)))

i64_neg(a) == i64_result(minus(a))

\* `let change = ...` of one account in analyze_balance_changes (native) and
\* in analyze_token_balance_changes (token: in both maps, only in the post
\* map, only in the pre map).
change_of(e, pre, post) ==
    IF e = "both" THEN i64_sub(as_i64(post), as_i64(pre))
    ELSE IF e = "post" THEN [value |-> as_i64(post), overflow |-> FALSE]
    ELSE i64_neg(as_i64(pre))

\* Balances the protocol can carry in a u64: 0, 1, 100_000, 10^9,
\* 2 * 10^18, 2^63 - 1, 2^63, 10^19 and 2^64 - 1.
U64Samples ==
    { Zero64, <<1, 0, 0, 0>>, DustFloor64, <<51712, 15258, 0, 0>>,
      <<0, 20168, 28007, 7105>>, <<65535, 65535, 65535, 32767>>, TwoTo63,
      <<0, 35304, 8964, 35527>>, <<65535, 65535, 65535, 65535>> }

\* handle_update and the store are at rest.
HandlerIdle ==
    /\ pc = "idle"
    /\ call = "print"
    /\ update = NoTransaction
    /\ addresses = <<>>
    /\ balance_changes = <<>>
    /\ used_senders = <<>>
    /\ used_receivers = <<>>
    /\ transfers = <<>>
    /\ pass_of = <<>>
    /\ sol_result = <<>>
    /\ token_changes = <<>>
    /\ token_result = <<>>
    /\ printed = NoResult
    /\ signature_data = NoSignatureData
    /\ signature_db = {}
    /\ signature_store = <<>>
    /\ address_store = <<>>
    /\ pending = <<>>
    /\ inserted = <<>>
    /\ max_records = MaxRecords
    /\ deliveries = 0
    /\ at_entry = NotEntered

\* One balance entry of a transaction, under one of the two build profiles.
ArithInit ==
    /\ HandlerIdle
    /\ KeyIdle
    /\ MonitorIdle
    /\ overflow_checks \in BOOLEAN
    /\ arith_pc = "balances"
    /\ \/ arith_asset = "native" /\ arith_entry = "both"
       \/ arith_asset = "token" /\ arith_entry \in {"both", "post", "pre"}
    /\ arith_pre \in IF arith_entry = "post" THEN {Zero64} ELSE U64Samples
    /\ arith_post \in IF arith_entry = "pre" THEN {Zero64} ELSE U64Samples
    /\ arith_change = NoChange
    /\ arith_amount = Zero64
    /\ scaled = Zero64
    /\ wrapped = FALSE

\* An operation whose result is r: with overflow checks an overflow panics.
Panics(r) == r.overflow /\ overflow_checks

\* The delta of the entry; a delta of 0 pushes no record.
AnalyzeChange ==
    /\ arith_pc = "balances"
    /\ LET r == change_of(arith_entry, arith_pre, arith_post)
       IN IF Panics(r)
          THEN /\ arith_pc' = "panicked"
               /\ UNCHANGED <<arith_change, wrapped>>
          ELSE /\ arith_change' = r.value
               /\ wrapped' = r.overflow
               /\ arith_pc' = IF r.value.mag = Zero64 THEN "done"
                               ELSE "change"
    /\ UNCHANGED <<overflow_checks, arith_asset, arith_entry, arith_pre,
                   arith_post, arith_amount, scaled>>
    /\ UNCHANGED <<parser_vars, store_vars, key_vars, monitor_vars>>

\* `(-sender.change) as u64` / `(-from_change) as u64` of a negative delta,
\* `receiver.change as u64` / `*to_change as u64` of a positive one.
DeriveAmount ==
    /\ arith_pc = "change"
    /\ LET r == IF arith_change.neg THEN i64_neg(arith_change)
                ELSE [value |-> arith_change, overflow |-> FALSE]
       IN IF Panics(r)
          THEN /\ arith_pc' = "panicked"
               /\ UNCHANGED <<arith_amount, wrapped>>
          ELSE /\ arith_amount' = as_u64(r.value)
               /\ wrapped' = (wrapped \/ r.overflow)
               /\ arith_pc' = "amount"
    /\ UNCHANGED <<overflow_checks, arith_asset, arith_entry, arith_pre,
                   arith_post, arith_change, scaled>>
    /\ UNCHANGED <<parser_vars, store_vars, key_vars, monitor_vars>>

\* amount * m / d in u64, moving on to the position `next`.
Scale(m, d, next) ==
    LET r == mul64(arith_amount, m)
    IN /\ IF Panics(r)
          THEN /\ arith_pc' = "panicked"
               /\ UNCHANGED <<scaled, wrapped>>
          ELSE /\ scaled' = div64(r.value, d)
               /\ wrapped' = (wrapped \/ r.overflow)
               /\ arith_pc' = next
       /\ UNCHANGED <<overflow_checks, arith_asset, arith_entry, arith_pre,
                      arith_post, arith_change, arith_amount>>
       /\ UNCHANGED <<parser_vars, store_vars, key_vars, monitor_vars>>

\* Pass B, a native sender facing an unused receiver: send_amount * 15 / 10.
PassBBound ==
    /\ arith_pc = "amount"
    /\ arith_asset = "native"
    /\ arith_change.neg
    /\ Scale(15, 10, "bound")

\* Pass B, the sender's first candidate (remaining_amount = send_amount), and
\* Pass C, a native receiver's first candidate (remaining_needed =
\* receive_amount): remaining * 11 / 10, computed from 100_000 on.
Tolerance ==
    /\ arith_asset = "native"
    /\ \/ arith_pc = "bound"
       \/ arith_pc = "amount" /\ ~arith_change.neg
    /\ ~less(arith_amount, DustFloor64)
    /\ Scale(11, 10, IF arith_change.neg THEN "tolerance" ELSE "done")

\* Pass C, a native sender of 100_000 or more consumed: send_amount * 8 / 10.
Marking ==
    /\ arith_pc = "tolerance"
    /\ Scale(8, 10, "done")

\* The one-to-one case of a token group, the decrease facing an increase of
\* at least a tenth of it: from_amount * 10.
TokenTenfold ==
    /\ arith_pc = "amount"
    /\ arith_asset = "token"
    /\ arith_change.neg
    /\ Scale(10, 1, "done")

ArithNext ==
    \/ AnalyzeChange
    \/ DeriveAmount
    \/ PassBBound
    \/ Tolerance
    \/ Marking
    \/ TokenTenfold

ArithSpec == ArithInit /\ [][ArithNext]_vars

\* The integer post - pre of the entry (post alone, -pre alone).
ExactChange ==
    IF arith_entry = "both"
    THEN plus([neg |-> FALSE, mag |-> arith_post],
              minus([neg |-> FALSE, mag |-> arith_pre]))
    ELSE IF arith_entry = "post" THEN [neg |-> FALSE, mag |-> arith_post]
    ELSE minus([neg |-> FALSE, mag |-> arith_pre])

\* C21: for every pair of u64 balances no operation panics, none wraps
\* around, and the delta computed is the integer post - pre (negative
\* exactly when post < pre) with the amount derived from it its magnitude.
C21_NoOverflow ==
    /\ arith_pc # "panicked"
    /\ ~wrapped
    /\ arith_pc \in {"change", "amount", "bound", "tolerance", "done"}
          => arith_change = ExactChange
    /\ arith_pc \in {"amount", "bound", "tolerance"}
          => arith_amount = ExactChange.mag

-----------------------------------------------------------------------------
(* StorageManager: make_key and validate_key_prefix                        *)

\* The longest configured prefix length and the longest argument, in chars.
MaxPrefixLength == 3

MaxChars == 2

\* A &str is a sequence of chars; "a" takes 1 byte in UTF-8, "U+00E9" 2.
Chars == {"a", "U+00E9"}

utf8_len(c) == IF c = "a" THEN 1 ELSE 2

Strs == UNION { [1..n -> Chars] : n \in 0..MaxChars }

\* str::len: the length in bytes.
RECURSIVE len(_)
len(str) == IF str = <<>> THEN 0 ELSE utf8_len(Head(str)) + len(Tail(str))

\* format!("{}{}", prefix, key)
format(prefix, key) == prefix \o key

\* The char positions of str at byte offset mid, if mid is a char boundary.
boundaries(str, mid) == {k \in 0..Len(str) : len(SubSeq(str, 1, k)) = mid}

\* str::split_at: panics if mid is not on a char boundary.
split_at(str, mid) ==
    IF boundaries(str, mid) = {} THEN KeyPanic
    ELSE LET k == CHOOSE k \in boundaries(str, mid) : TRUE
         IN [ok    |-> TRUE,
             value |-> <<SubSeq(str, 1, k), SubSeq(str, k + 1, Len(str))>>]

make_key_key_first(prefix, key) ==
    IF len(prefix) # key_prefix_length THEN KeyErr
    ELSE [ok |-> TRUE, value |-> format(key, prefix)]

make_key(prefix, key) ==
    IF len(prefix) # key_prefix_length THEN KeyErr
    ELSE [ok |-> TRUE, value |-> format(prefix, key)]

validate_key_prefix(key) ==
    IF len(key) < key_prefix_length THEN KeyErr
    ELSE split_at(key, key_prefix_length)

\* A storage manager of some prefix length is handed a prefix and a key.
KeyInit ==
    /\ HandlerIdle
    /\ ArithIdle
    /\ MonitorIdle
    /\ key_prefix_length \in 0..MaxPrefixLength
    /\ key_pc = "arguments"
    /\ arg_prefix \in Strs
    /\ arg_key \in Strs
    /\ made_key = KeyErr
    /\ validated = KeyErr

\* storage.make_key(prefix, key)
MakeKey ==
    /\ key_pc = "arguments"
    /\ made_key' = make_key(arg_prefix, arg_key)
    /\ key_pc' = "made"
    /\ UNCHANGED <<key_prefix_length, arg_prefix, arg_key, validated>>
    /\ UNCHANGED <<parser_vars, store_vars, arith_vars, monitor_vars>>

\* storage.validate_key_prefix(&key) of the key make_key returned.
ValidateMadeKey ==
    /\ key_pc = "made"
    /\ made_key.ok
    /\ validated' = validate_key_prefix(made_key.value)
    /\ key_pc' = "round_trip"
    /\ UNCHANGED <<key_prefix_length, arg_prefix, arg_key, made_key>>
    /\ UNCHANGED <<parser_vars, store_vars, arith_vars, monitor_vars>>

\* storage.validate_key_prefix(key) of any key.
ValidateKey ==
    /\ key_pc = "arguments"
    /\ validated' = validate_key_prefix(arg_key)
    /\ key_pc' = "validated"
    /\ UNCHANGED <<key_prefix_length, arg_prefix, arg_key, made_key>>
    /\ UNCHANGED <<parser_vars, store_vars, arith_vars, monitor_vars>>

KeyNext ==
    \/ MakeKey
    \/ ValidateMadeKey
    \/ ValidateKey

KeySpec == KeyInit /\ [][KeyNext]_vars

\* C22 as stated: make_key succeeds exactly when the prefix has
\* key_prefix_length characters; validate_key_prefix of a made key returns
\* (prefix, key); validate_key_prefix fails for every key of fewer than
\* key_prefix_length characters.
C22_PrefixCharacters ==
    /\ key_pc \in {"made", "round_trip"}
          => (made_key.ok <=> Len(arg_prefix) = key_prefix_length)
    /\ key_pc = "round_trip"
          => validated = [ok |-> TRUE, value |-> <<arg_prefix, arg_key>>]
    /\ (key_pc = "validated" /\ Len(arg_key) < key_prefix_length)
          => ~validated.ok

\* C22 amended: the lengths are lengths in bytes of the UTF-8 encoding.
\* make_key succeeds exactly when the prefix takes key_prefix_length bytes,
\* and then yields prefix followed by key; validate_key_prefix of a made key
\* returns (prefix, key); validate_key_prefix returns an error for every key
\* of fewer than key_prefix_length bytes.
C22_PrefixBytes ==
    /\ key_pc \in {"made", "round_trip"}
          => /\ made_key.ok <=> len(arg_prefix) = key_prefix_length
             /\ made_key.ok => made_key.value = arg_prefix \o arg_key
    /\ key_pc = "round_trip"
          => validated = [ok |-> TRUE, value |-> <<arg_prefix, arg_key>>]
    /\ (key_pc = "validated" /\ len(arg_key) < key_prefix_length)
          => validated = KeyErr

\* A key made from a prefix of two bytes in one char and a non-empty key
\* has been split again.
C22_Witness ==
    /\ key_pc = "round_trip"
    /\ key_prefix_length = 2
    /\ arg_prefix = <<"U+00E9">>
    /\ arg_key # <<>>
    /\ validated.ok

-----------------------------------------------------------------------------
(* SolanaGrpcClient: the monitoring loop                                   *)

\* The most connection attempts and messages per connection followed.
MaxAttempts == 2

MaxMessages == 2

\* tokio::time::sleep(Duration::from_secs(5))
RETRY_SECONDS == 5

\* The outcomes of store_transaction_to_database: stored, skipped because
\* the signature exists, Err from store_signature_data, and an error of
\* batch_process_transaction (logged inside, Ok returned).
StoreOutcomes == {"stored", "exists", "signature_error", "address_error"}

\* The token balance entry of a transaction update: none, a decrease of
\* 10^9 raw units, or a closed account that held 2 * 10^18 raw units, each
\* decrease facing one increase of the same amount.
TokenEntries == {"none", "plain", "large"}

TokenEntry(name) ==
    IF name = "plain"
    THEN [e |-> "both", pre |-> <<51712, 15258, 0, 0>>, post |-> Zero64]
    ELSE [e |-> "pre", pre |-> <<0, 20168, 28007, 7105>>, post |-> Zero64]

\* parse_token_transfers meets an arithmetic overflow on the entry.
parser_overflows(name) ==
    IF name = "none" THEN FALSE
    ELSE LET t == TokenEntry(name)
             c == change_of(t.e, t.pre, t.post)
             n == i64_neg(c.value)
         IN \/ c.overflow
            \/ c.value.neg /\ n.overflow
            \/ c.value.neg /\ mul64(as_u64(n.value), 10).overflow

\* The messages of the stream: transaction updates, updates of another kind
\* (account, slot, block, ping, ...) and updates with no payload.
MonitorUpdates ==
    { [kind |-> "transaction", token_entry |-> e, store |-> o] :
        e \in TokenEntries, o \in StoreOutcomes }
    \cup { [kind |-> "other", token_entry |-> "none", store |-> "none"],
           [kind |-> "empty", token_entry |-> "none", store |-> "none"] }

\* start_monitoring enters its loop, with or without a database, under one
\* of the two build profiles.
MonitorInit ==
    /\ HandlerIdle
    /\ KeyIdle
    /\ overflow_checks \in BOOLEAN
    /\ arith_pc = "idle"
    /\ arith_asset = "native"
    /\ arith_entry = "both"
    /\ arith_pre = Zero64
    /\ arith_post = Zero64
    /\ arith_change = NoChange
    /\ arith_amount = Zero64
    /\ scaled = Zero64
    /\ wrapped = FALSE
    /\ mon_pc = "connect"
    /\ db_manager \in BOOLEAN
    /\ attempts = 0
    /\ ended = "none"
    /\ slept = 0
    /\ message_count = 0
    /\ transaction_count = 0
    /\ last_update = NoUpdate
    /\ returned_ok = 0
    /\ error_logged = FALSE

MonitorRest == <<parser_vars, store_vars, arith_vars, key_vars, db_manager>>

\* connect_and_subscribe up to the stream: build, connect and subscribe_once
\* each return their error with `?`.
Connect ==
    /\ mon_pc = "connect"
    /\ attempts < MaxAttempts
    /\ attempts' = attempts + 1
    /\ message_count' = 0
    /\ transaction_count' = 0
    /\ returned_ok' = 0
    /\ \/ mon_pc' = "stream" /\ UNCHANGED ended
       \/ mon_pc' = "match_err" /\ ended' = "err"
    /\ UNCHANGED <<slept, last_update, error_logged>>
    /\ UNCHANGED MonitorRest

\* stream.next() yields Ok(update): message_count += 1 and handle_update.
HandleUpdate(u) ==
    /\ mon_pc = "stream"
    /\ message_count < MaxMessages
    /\ message_count' = message_count + 1
    /\ last_update' = u
    /\ transaction_count' = IF u.kind = "transaction"
                             THEN transaction_count + 1
                             ELSE transaction_count
    /\ IF u.kind = "transaction" /\ overflow_checks
          /\ parser_overflows(u.token_entry)
       THEN /\ mon_pc' = "panicked"
            /\ UNCHANGED <<returned_ok, error_logged>>
       ELSE /\ error_logged' = (/\ u.kind = "transaction"
                                 /\ db_manager
                                 /\ u.store \in {"signature_error",
                                                  "address_error"})
            /\ returned_ok' = returned_ok + 1
            /\ mon_pc' = "stream"
    /\ UNCHANGED <<attempts, ended, slept>>
    /\ UNCHANGED MonitorRest

\* stream.next() yields Err(e): logged, connect_and_subscribe returns Err.
StreamError ==
    /\ mon_pc = "stream"
    /\ mon_pc' = "match_err"
    /\ ended' = "err"
    /\ UNCHANGED <<attempts, slept, message_count, transaction_count,
                   last_update, returned_ok, error_logged>>
    /\ UNCHANGED MonitorRest

\* stream.next() yields None: connect_and_subscribe returns Ok(()).
StreamEnd ==
    /\ mon_pc = "stream"
    /\ mon_pc' = "match_ok"
    /\ ended' = "ok"
    /\ UNCHANGED <<attempts, slept, message_count, transaction_count,
                   last_update, returned_ok, error_logged>>
    /\ UNCHANGED MonitorRest

\* The Ok(_) arm of start_monitoring: log and loop.
Reconnect ==
    /\ mon_pc = "match_ok"
    /\ mon_pc' = "connect"
    /\ slept' = 0
    /\ UNCHANGED <<attempts, ended, message_count, transaction_count,
                   last_update, returned_ok, error_logged>>
    /\ UNCHANGED MonitorRest

\* The Err(e) arm of start_monitoring: log and start the sleep.
Sleep ==
    /\ mon_pc = "match_err"
    /\ mon_pc' = "sleep"
    /\ slept' = 0
    /\ UNCHANGED <<attempts, ended, message_count, transaction_count,
                   last_update, returned_ok, error_logged>>
    /\ UNCHANGED MonitorRest

\* The sleep is over: loop.
Wake ==
    /\ mon_pc = "sleep"
    /\ mon_pc' = "connect"
    /\ slept' = RETRY_SECONDS
    /\ UNCHANGED <<attempts, ended, message_count, transaction_count,
                   last_update, returned_ok, error_logged>>
    /\ UNCHANGED MonitorRest

MonitorNext ==
    \/ Connect
    \/ (\E u \in MonitorUpdates : HandleUpdate(u))
    \/ StreamError
    \/ StreamEnd
    \/ Reconnect
    \/ Sleep
    \/ Wake

\* The runtime polls the task and fires its timer: the two arms of the match
\* and the end of the sleep are taken once reached.
MonitorSpec ==
    /\ MonitorInit
    /\ [][MonitorNext]_vars
    /\ WF_vars(Reconnect)
    /\ WF_vars(Sleep)
    /\ WF_vars(Wake)

\* An error end of connect_and_subscribe is followed by a new attempt after
\* the wait of 5 seconds, a normal end by a new attempt at once.
RetriesFollow ==
    /\ (mon_pc = "match_err") ~> (mon_pc = "connect" /\ slept = RETRY_SECONDS)
    /\ (mon_pc = "match_ok") ~> (mon_pc = "connect" /\ slept = 0)

\* A failed store is logged and the stream goes on.
StoreFailureLogged ==
    (/\ mon_pc = "stream"
     /\ db_manager
     /\ last_update.kind = "transaction"
     /\ last_update.store \in {"signature_error", "address_error"})
    => error_logged

\* C26: start_monitoring stays in its loop; an error end is followed by a
\* new attempt after 5 seconds and a normal end by one at once; a failed
\* store is logged; and every update handed to handle_update returns Ok,
\* leaving the stream open for the next.
C26_MonitoringLiveness ==
    /\ [](mon_pc \in {"connect", "stream", "match_ok", "match_err", "sleep"})
    /\ [](returned_ok = message_count)
    /\ []StoreFailureLogged
    /\ [][message_count' = message_count + 1 => mon_pc' = "stream"]_vars
    /\ RetriesFollow

=============================================================================
